---- MODULE Spec2Model ----
(***************************************************************************)
(* The session broker of letta-code-web (server/src/session.ts, with the   *)
(* callers of server/src/index.ts): one Session, its viewers, its worker   *)
(* processes, its control-channel listener and connections, and the        *)
(* asynchronous steps of its start and restart sequences.                  *)
(*                                                                         *)
(* Every handler of the Session is one action.  A handler is written as an *)
(* operator on a record W of the whole state ("world"), so that the calls  *)
(* a handler makes (stop, spawnPty, pushTerminalData, ...) compose the way *)
(* they do in the source; the action assigns the resulting record to the   *)
(* variables.                                                              *)
(***************************************************************************)
EXTENDS Integers, Sequences, FiniteSets, TLC

\* ------------------------------------------------------------------ bounds
\* The most viewers, workers, start sequences and session.restart commands of a
\* run, and the most pty chunks, control-channel frames, changes of the stored
\* credential, failures of mkdtemp / listen / pty.spawn, and error events of
\* viewer connections.
MaxViewers == 2
MaxWorkers == 3
MaxStarts == 2
MaxRestarts == 2
MaxData == 2
MaxRunnerMsgs == 2
MaxCredChanges == 1
MaxFailures == 1
MaxWsErrors == 1
\* The most messages of unexpected shape of a run.
MaxNoise == 2
\* Scaled-down sizes of the 64_000-character replay chunk and of the
\* 1_000_000-character backlog cap.
ChunkSize == 2
MaxTerminalBufferChars == 3

Viewers == 1 .. MaxViewers
WorkerIds == 1 .. MaxWorkers
StartIds == 1 .. MaxStarts
RestartIds == 1 .. MaxRestarts

RunnerModes == {"mock", "letta", "seam"}
Tokens == {"tokA", "tokB"}
ToolCallIds == {"t1", "t2"}

\* ------------------------------------------------------------- UI states
EmptyUiState ==
    [activeOverlay |-> "null", pendingApprovals |-> <<>>, currentApprovalIndex |-> 0,
     currentApproval |-> "absent"]

\* The worker's setActiveOverlay().
setActiveOverlay(state, overlay) == [state EXCEPT !.activeOverlay = overlay]

\* setApprovals() with a delete that is missing.
setApprovalsKeepingCurrent(state, approvals) ==
    [state EXCEPT !.pendingApprovals = approvals,
                  !.currentApprovalIndex = 0,
                  !.currentApproval = IF approvals # << >> THEN approvals[1] ELSE @]

\* The worker's setApprovals(): an approval request is named by its toolCallId.
setApprovals(state, approvals) ==
    [state EXCEPT !.pendingApprovals = approvals,
                  !.currentApprovalIndex = 0,
                  !.currentApproval = IF approvals # << >> THEN approvals[1] ELSE "absent"]

\* The states a worker publishes: its first state, the state with an approval
\* pending, the state after that approval was answered, and the state with an
\* overlay open.
UiStates ==
    { EmptyUiState,
      setApprovals(EmptyUiState, << "t1" >>),
      setApprovals(setApprovals(EmptyUiState, << "t1" >>), << >>),
      setActiveOverlay(EmptyUiState, "model") }

\* --------------------------------------------------------- terminal text
\* A character of terminal text: where it comes from (a worker's pty, or a
\* line the broker writes itself), which worker, and its number.
Char(k, w, n) == [k |-> k, w |-> w, n |-> n]
NotAuthenticatedLine == << Char("notAuthenticated", 0, 0) >>
AuthInvalidLine == << Char("authInvalid", 0, 0) >>
SessionErrorLine == << Char("sessionError", 0, 0) >>
RunnerLogLine == << Char("runnerLog", 0, 0) >>
PtyChunk(w, d) == << Char("pty", w, 2 * d - 1), Char("pty", w, 2 * d) >>

\* ------------------------------------------------------- NDJSON framing
\* Text is a sequence of characters.  The JSON values that are framed: the
\* number 1 and strings, inside depth arrays of one element.
NL == "\n"
CR == "\r"
SP == " "
Quote == "\""
Backslash == "\\"
Whitespace == {SP, CR, NL}

Num1 == [kind |-> "num", depth |-> 0, text |-> << "1" >>]
Str(text) == [kind |-> "str", depth |-> 0, text |-> text]
InArray(m) == [m EXCEPT !.depth = @ + 1]
NoMessage == [kind |-> "none", depth |-> 0, text |-> << >>]

Repeat(c, n) == [i \in 1 .. n |-> c]

\* JSON.stringify of a string: quote, backslash and control characters are escaped.
RECURSIVE Escape(_)
Escape(text) ==
    IF text = << >> THEN << >>
    ELSE LET c == Head(text)
         IN  (IF c = NL THEN << Backslash, "n" >>
              ELSE IF c = CR THEN << Backslash, "r" >>
              ELSE IF c \in {Backslash, Quote} THEN << Backslash, c >>
              ELSE << c >>) \o Escape(Tail(text))

JSONstringify(m) ==
    Repeat("[", m.depth)
        \o (IF m.kind = "num" THEN m.text ELSE << Quote >> \o Escape(m.text) \o << Quote >>)
        \o Repeat("]", m.depth)

encodeNdjson(m) == JSONstringify(m) \o << NL >>

\* String.prototype.trim.
RECURSIVE TrimStart(_)
TrimStart(s) ==
    IF s # << >> /\ Head(s) \in Whitespace THEN TrimStart(Tail(s)) ELSE s
RECURSIVE TrimEnd(_)
TrimEnd(s) ==
    IF s # << >> /\ s[Len(s)] \in Whitespace THEN TrimEnd(SubSeq(s, 1, Len(s) - 1)) ELSE s
Trim(s) == TrimEnd(TrimStart(s))

\* The content of a JSON string literal, between its quotes.
RECURSIVE Unescape(_)
Unescape(s) ==
    IF s = << >> THEN [ok |-> TRUE, text |-> << >>]
    ELSE IF Head(s) = Backslash
    THEN IF Len(s) >= 2 /\ s[2] \in {"n", "r", Backslash, Quote}
         THEN LET r == Unescape(SubSeq(s, 3, Len(s)))
                  c == IF s[2] = "n" THEN NL ELSE IF s[2] = "r" THEN CR ELSE s[2]
              IN  [ok |-> r.ok, text |-> << c >> \o r.text]
         ELSE [ok |-> FALSE, text |-> << >>]
    ELSE IF Head(s) \in {Quote, NL, CR}
    THEN [ok |-> FALSE, text |-> << >>]
    ELSE LET r == Unescape(Tail(s))
         IN  [ok |-> r.ok, text |-> << Head(s) >> \o r.text]

\* JSON.parse: the value, or ok = FALSE where JSON.parse throws a SyntaxError.
RECURSIVE JSONparse(_)
JSONparse(text) ==
    LET t == Trim(text)
        bad == [ok |-> FALSE, val |-> NoMessage]
    IN  IF t = << "1" >> THEN [ok |-> TRUE, val |-> Num1]
        ELSE IF Len(t) >= 2 /\ t[1] = "[" /\ t[Len(t)] = "]"
        THEN LET r == JSONparse(SubSeq(t, 2, Len(t) - 1))
             IN  IF r.ok THEN [ok |-> TRUE, val |-> InArray(r.val)] ELSE bad
        ELSE IF Len(t) >= 2 /\ t[1] = Quote /\ t[Len(t)] = Quote
        THEN LET r == Unescape(SubSeq(t, 2, Len(t) - 1))
             IN  IF r.ok THEN [ok |-> TRUE, val |-> Str(r.text)] ELSE bad
        ELSE bad

\* String.prototype.indexOf, counted from 1; 0 when there is none.
IndexOf(s, c) ==
    IF \E i \in 1 .. Len(s) : s[i] = c
    THEN CHOOSE i \in 1 .. Len(s) : s[i] = c /\ \A j \in 1 .. (i - 1) : s[j] # c
    ELSE 0

\* The decoder with an if where the loop is: one line per chunk.
RECURSIVE ndjsonDrainOnce(_)
ndjsonDrainOnce(p) ==
    LET nl == IndexOf(p.buffer, NL)
    IN  IF nl = 0 THEN p
        ELSE LET line == Trim(SubSeq(p.buffer, 1, nl - 1))
                 p1 == [p EXCEPT !.buffer = SubSeq(p.buffer, nl + 1, Len(p.buffer))]
                 r == JSONparse(line)
             IN  IF line = << >> THEN p1
                 ELSE IF r.ok THEN [p1 EXCEPT !.out = Append(@, r.val)]
                 ELSE p1

\* The decoder without its try and catch: a malformed line raises.
RECURSIVE ndjsonDrainRaising(_)
ndjsonDrainRaising(p) ==
    LET nl == IndexOf(p.buffer, NL)
    IN  IF nl = 0 THEN p
        ELSE LET line == Trim(SubSeq(p.buffer, 1, nl - 1))
                 p1 == [p EXCEPT !.buffer = SubSeq(p.buffer, nl + 1, Len(p.buffer))]
                 r == JSONparse(line)
             IN  IF line = << >> THEN ndjsonDrainRaising(p1)
                 ELSE IF r.ok THEN ndjsonDrainRaising([p1 EXCEPT !.out = Append(@, r.val)])
                 ELSE [p1 EXCEPT !.thrown = TRUE]

\* The while loop of the function createNdjsonParser() returns.
RECURSIVE ndjsonDrain(_)
ndjsonDrain(p) ==
    LET nl == IndexOf(p.buffer, NL)
    IN  IF nl = 0 THEN p
        ELSE LET line == Trim(SubSeq(p.buffer, 1, nl - 1))
                 p1 == [p EXCEPT !.buffer = SubSeq(p.buffer, nl + 1, Len(p.buffer))]
                 r == JSONparse(line)
             IN  IF line = << >> THEN ndjsonDrain(p1)
                 ELSE IF r.ok THEN ndjsonDrain([p1 EXCEPT !.out = Append(@, r.val)])
                 ELSE ndjsonDrain(p1)

\* The function createNdjsonParser() returns, called with one chunk.
ndjsonParse(p, chunk) == ndjsonDrain([p EXCEPT !.buffer = @ \o chunk])

\* No stream is read: the state of nd in a Session's runs.
NoStream ==
    [rest |-> << >>, fed |-> << >>, buffer |-> << >>, out |-> << >>, thrown |-> FALSE,
     msgs |-> << >>, framed |-> FALSE, chunks |-> 0]

\* No mock worker is followed: the state of mock in the other runs.
NoMock ==
    [state |-> EmptyUiState, inbox |-> << >>, outbox |-> << >>, stdout |-> << >>,
     greeted |-> FALSE, forwarded |-> << >>, delivered |-> << >>, quota |-> 0,
     followed |-> FALSE]

\* ---------------------------------------------------------------- state
VARIABLES
    runner,            \* Session.runner
    clients,           \* Session.clients
    idleTimer,         \* Session.idleTimer: "null", "armed", or "fired" (a handle that ran)
    startPromise,      \* Session.startPromise: 0 (null) or the start sequence it belongs to
    disposed,          \* Session.disposed
    terminalBuffer,    \* Session.terminalBuffer
    lastToolUiStates,  \* Session.lastToolUiStates, in insertion order
    ptyProcess,        \* Session.ptyProcess: 0 (null) or a worker
    socketServer,      \* Session.socketServer: 0 (null) or a listener
    runnerSocket,      \* Session.runnerSocket: 0 (null) or a connection
    tmpDir,            \* Session.tmpDir: 0 (null) or a directory
    socketPath,        \* Session.socketPath: 0 (null) or the socket file in a directory
    lastUiState,       \* Session.lastUiState
    ws,                \* each viewer connection: "new", "open", "errored", "closed"
    workers,           \* each worker process: its state and what it was spawned with
    conns,             \* the control connection of each worker
    listening,         \* the listeners (net.Server) that are listening
    dirs,              \* the temp directories that exist
    sockFiles,         \* the directories whose runner.sock file exists
    starts,            \* the start sequences: where each one is
    restarts,          \* the restart validations: where each one is
    stored,            \* the stored credential: "none" or a token
    envAuth,           \* LETTA_API_KEY / LETTA_BASE_URL of the server's environment
    crashed,           \* an exception left the Session uncaught
    budget,            \* what the environment may still do
    last,              \* the handler that ran last, and its effects in order
    expect,            \* per viewer: backlog at attach, then all text produced since
    recvTerm,          \* per viewer: the terminal.data text sent to it since attach
    replayed,          \* per viewer: the length of the backlog when it attached
    recvUi,            \* per viewer: the ui.state messages sent to it since attach
    emittedUi,         \* the UI state a worker emitted last since the last stop, if any
    emittedTools,      \* the tool-UI states workers emitted since the last stop
    pushed,            \* the text given to pushTerminalData since the last stop
    prevRun,           \* the workers spawned before the last idle stop
    nd,                \* a control-channel byte stream and the decoder that reads it
    mock               \* the mock worker: its UI state, and the frames and output under way

vars ==
    << runner, clients, idleTimer, startPromise, disposed, terminalBuffer,
       lastToolUiStates, ptyProcess, socketServer, runnerSocket, tmpDir, socketPath,
       lastUiState, ws, workers, conns, listening, dirs, sockFiles, starts, restarts,
       stored, envAuth, crashed, budget, last, expect, recvTerm, replayed, recvUi,
       emittedUi, emittedTools, pushed, prevRun, nd, mock >>

World ==
    [runner |-> runner, clients |-> clients, idleTimer |-> idleTimer,
     startPromise |-> startPromise, disposed |-> disposed,
     terminalBuffer |-> terminalBuffer, lastToolUiStates |-> lastToolUiStates,
     ptyProcess |-> ptyProcess, socketServer |-> socketServer,
     runnerSocket |-> runnerSocket, tmpDir |-> tmpDir, socketPath |-> socketPath,
     lastUiState |-> lastUiState, ws |-> ws, workers |-> workers, conns |-> conns,
     listening |-> listening, dirs |-> dirs, sockFiles |-> sockFiles, starts |-> starts, restarts |-> restarts,
     stored |-> stored, envAuth |-> envAuth, crashed |-> crashed, budget |-> budget,
     fx |-> <<>>, expect |-> expect, recvTerm |-> recvTerm, replayed |-> replayed,
     recvUi |-> recvUi, emittedUi |-> emittedUi, emittedTools |-> emittedTools,
     pushed |-> pushed,
     prevRun |-> prevRun, thrown |-> "none", overflow |-> FALSE, failing |-> {}]

\* The handler named h ran, on an awaited call that succeeded (ok) or not, and
\* left the world W.
Settle(h, ok, W) ==
    /\ runner' = W.runner
    /\ clients' = W.clients
    /\ idleTimer' = W.idleTimer
    /\ startPromise' = W.startPromise
    /\ disposed' = W.disposed
    /\ terminalBuffer' = W.terminalBuffer
    /\ lastToolUiStates' = W.lastToolUiStates
    /\ ptyProcess' = W.ptyProcess
    /\ socketServer' = W.socketServer
    /\ runnerSocket' = W.runnerSocket
    /\ tmpDir' = W.tmpDir
    /\ socketPath' = W.socketPath
    /\ lastUiState' = W.lastUiState
    /\ ws' = W.ws
    /\ workers' = W.workers
    /\ conns' = W.conns
    /\ listening' = W.listening
    /\ dirs' = W.dirs
    /\ sockFiles' = W.sockFiles
    /\ starts' = W.starts
    /\ restarts' = W.restarts
    /\ stored' = W.stored
    /\ envAuth' = W.envAuth
    /\ crashed' = W.crashed
    /\ budget' = W.budget
    /\ last' = [h |-> h, ok |-> ok,
                fx |-> IF mock.followed THEN [i \in 1 .. Len(W.fx) |-> [op |-> W.fx[i].op]]
                       ELSE W.fx]
    /\ expect' = W.expect
    /\ recvTerm' = W.recvTerm
    /\ replayed' = W.replayed
    /\ recvUi' = W.recvUi
    /\ emittedUi' = IF \E i \in 1 .. Len(W.fx) : W.fx[i].op = "stop" THEN << >>
                    ELSE W.emittedUi
    /\ emittedTools' = IF \E i \in 1 .. Len(W.fx) : W.fx[i].op = "stop" THEN << >>
                       ELSE W.emittedTools
    /\ pushed' = W.pushed
    /\ prevRun' = W.prevRun
    /\ nd' = nd

\* A handler of the Session ran: the mock worker is where it was.
Apply(h, ok, W) == Settle(h, ok, W) /\ mock' = mock

\* The viewers that are attached: attach was called for them and neither a
\* close nor an error of their connection has been handled since.
Attached == {v \in Viewers : ws[v] = "open"}
AttachedIn(W) == {v \in Viewers : W.ws[v] = "open"}

\* One effect of a handler: what was done (op), to what (a), with what (m),
\* and the viewers attached at that moment (att).
Fx(op, a, m, att) == [op |-> op, a |-> a, m |-> m, att |-> att]
Emit(W, op, a, m) == [W EXCEPT !.fx = Append(@, Fx(op, a, m, AttachedIn(W)))]

Msg(type, body) == [type |-> type, body |-> body]
Min(a, b) == IF a < b THEN a ELSE b

\* String.prototype.slice(from, to) for 0 <= from, on a sequence of characters.
Slice(s, from, to) == SubSeq(s, from + 1, Min(to, Len(s)))

\* An exception is raised in the running handler.
Throw(W, message) == [W EXCEPT !.thrown = message]

\* A call into the system (mkdtemp, listen, pty.spawn) fails and raises: one of
\* the few failures a run may have.
Fail(W, message) ==
    IF W.budget.fail = 0 THEN [W EXCEPT !.overflow = TRUE]
    ELSE Throw([W EXCEPT !.budget.fail = @ - 1], message)

\* ------------------------------------------------------- sending to viewers
\* ws.send(...): the text of a terminal.data message reaches the viewer when its
\* connection is open.
wsSend(W, v, msg) ==
    IF msg.type = "terminal.data" /\ W.ws[v] = "open"
    THEN [W EXCEPT !.recvTerm[v] = @ \o msg.body]
    ELSE IF msg.type = "ui.state" /\ W.ws[v] = "open"
    THEN [W EXCEPT !.recvUi[v] = Append(@, msg.body)]
    ELSE W

sendToClient(W, v, msg) ==
    IF W.disposed THEN W ELSE wsSend(Emit(W, "send", v, msg), v, msg)

RECURSIVE wsSendAll(_, _, _)
wsSendAll(W, vs, msg) ==
    IF vs = {} THEN W
    ELSE LET v == CHOOSE x \in vs : TRUE
         IN  wsSendAll(wsSend(W, v, msg), vs \ {v}, msg)

sendToClients(W, msg) ==
    IF W.disposed THEN Emit(W, "broadcast", {}, msg)
    ELSE wsSendAll(Emit(W, "broadcast", W.clients, msg), W.clients, msg)

\* Text that the Session produces for its viewers from now on.
Produced(W, data) ==
    [W EXCEPT !.expect =
        [v \in Viewers |-> IF W.ws[v] = "open" THEN @[v] \o data ELSE @[v]]]

\* pushTerminalData() that keeps the beginning of the buffer when it is full.
pushTerminalDataKeepingOldest(W, data) ==
    LET buf == W.terminalBuffer \o data
        kept == IF Len(buf) > MaxTerminalBufferChars
                THEN Slice(buf, 0, MaxTerminalBufferChars)
                ELSE buf
    IN  sendToClients([Produced(W, data) EXCEPT !.terminalBuffer = kept,
                                                !.pushed = @ \o data],
                      Msg("terminal.data", data))

pushTerminalData(W, data) ==
    LET buf == W.terminalBuffer \o data
        kept == IF Len(buf) > MaxTerminalBufferChars
                THEN Slice(buf, Len(buf) - MaxTerminalBufferChars, Len(buf))
                ELSE buf
    IN  sendToClients([Produced(W, data) EXCEPT !.terminalBuffer = kept,
                                                !.pushed = @ \o data],
                      Msg("terminal.data", data))

\* flushTerminalBacklog() with a loop that steps one character too far.
RECURSIVE flushFromSkipping(_, _, _)
flushFromSkipping(W, v, i) ==
    IF i >= Len(W.terminalBuffer) THEN W
    ELSE flushFromSkipping(sendToClient(W, v, Msg("terminal.data",
                                                  Slice(W.terminalBuffer, i, i + ChunkSize))),
                           v, i + ChunkSize + 1)

RECURSIVE flushFrom(_, _, _)
flushFrom(W, v, i) ==
    IF i >= Len(W.terminalBuffer) THEN W
    ELSE flushFrom(sendToClient(W, v, Msg("terminal.data",
                                          Slice(W.terminalBuffer, i, i + ChunkSize))),
                   v, i + ChunkSize)

flushTerminalBacklog(W, v) ==
    IF W.terminalBuffer = <<>> THEN W ELSE flushFrom(W, v, 0)

RECURSIVE sendToolUiStates(_, _, _)
sendToolUiStates(W, v, i) ==
    IF i > Len(W.lastToolUiStates) THEN W
    ELSE sendToolUiStates(sendToClient(W, v, Msg("ui.tool_ui.state", W.lastToolUiStates[i])),
                          v, i + 1)

\* ------------------------------------------------- processes and sockets
\* net.Socket.destroy(): an open connection is closed; its close event comes later.
destroySocket(W, c) ==
    Emit([W EXCEPT !.conns[c] = IF @ = "established" THEN "destroyed" ELSE @],
         "destroySocket", c, "")

\* net.Server.close(): the listener stops listening, and the net library
\* unlinks the socket file it created for it.
closeServer(W, l) ==
    LET W1 == Emit([W EXCEPT !.listening = @ \ {l}], "closeServer", l, "")
    IN  IF l \in W1.sockFiles
        THEN Emit([W1 EXCEPT !.sockFiles = @ \ {l}], "unlink", l, "")
        ELSE W1

\* IPty.kill(): a signal to a process that is still there; it exits later.
killPty(W, p) ==
    Emit([W EXCEPT !.workers[p].st = IF @ = "live" THEN "killed" ELSE @], "kill", p, "")

\* fs.rmSync(socketPath, force): removes the file when it is still there.
rmSocketPath(W, d) ==
    LET W1 == Emit(W, "rmSocketPath", d, "")
    IN  IF d \in W1.sockFiles
        THEN Emit([W1 EXCEPT !.sockFiles = @ \ {d}], "unlink", d, "")
        ELSE W1

\* fs.rmSync(tmpDir, recursive, force).
rmTmpDir(W, d) ==
    Emit([W EXCEPT !.dirs = @ \ {d}, !.sockFiles = @ \ {d}], "rmTmpDir", d, "")

\* The release steps of stop(), by what they call.
ReleaseSteps == {"destroySocket", "closeServer", "kill", "rmSocketPath", "rmTmpDir"}

\* A release step raises: nothing is released, and the exception is on its way.
ReleaseFails(W, op, a) ==
    [W EXCEPT !.fx = @ \o << Fx(op, a, "", AttachedIn(W)), Fx("raised", a, op, AttachedIn(W)) >>,
              !.thrown = "release failed"]

\* try { ... } catch { } around one release step.
Swallow(W) == [W EXCEPT !.thrown = "none"]

\* stop(), its assignments before the release steps.
clearCaches(W) ==
    [Emit(W, "stop", 0, "") EXCEPT !.startPromise = 0,
                                   !.terminalBuffer = <<>>,
                                   !.pushed = <<>>,
                                   !.lastToolUiStates = <<>>,
                                   !.lastUiState = EmptyUiState]

\* The release steps of stop(), each with its try and catch and the
\* assignment of null that follows it.
releaseRunnerSocket(W) ==
    [Swallow(IF W.runnerSocket = 0 THEN W
             ELSE IF "destroySocket" \in W.failing
             THEN ReleaseFails(W, "destroySocket", W.runnerSocket)
             ELSE destroySocket(W, W.runnerSocket))
        EXCEPT !.runnerSocket = 0]

releaseSocketServer(W) ==
    [Swallow(IF W.socketServer = 0 THEN W
             ELSE IF "closeServer" \in W.failing
             THEN ReleaseFails(W, "closeServer", W.socketServer)
             ELSE closeServer(W, W.socketServer))
        EXCEPT !.socketServer = 0]

releasePtyProcess(W) ==
    [Swallow(IF W.ptyProcess = 0 THEN W
             ELSE IF "kill" \in W.failing THEN ReleaseFails(W, "kill", W.ptyProcess)
             ELSE killPty(W, W.ptyProcess))
        EXCEPT !.ptyProcess = 0]

releaseSocketPath(W) ==
    [Swallow(IF W.socketPath = 0 THEN W
             ELSE IF "rmSocketPath" \in W.failing
             THEN ReleaseFails(W, "rmSocketPath", W.socketPath)
             ELSE rmSocketPath(W, W.socketPath))
        EXCEPT !.socketPath = 0]

releaseTmpDir(W) ==
    [Swallow(IF W.tmpDir = 0 THEN W
             ELSE IF "rmTmpDir" \in W.failing THEN ReleaseFails(W, "rmTmpDir", W.tmpDir)
             ELSE rmTmpDir(W, W.tmpDir))
        EXCEPT !.tmpDir = 0]

\* stop() without its try blocks: the first release step that raises ends it,
\* and the exception leaves the listener that called stop().
stopAbortingOnFailure(W) ==
    LET W0 == clearCaches(W)
        W1 == IF W0.runnerSocket # 0 /\ "destroySocket" \in W0.failing
              THEN ReleaseFails(W0, "destroySocket", W0.runnerSocket)
              ELSE releaseRunnerSocket(W0)
        W2 == IF W1.thrown # "none" THEN W1
              ELSE IF W1.socketServer # 0 /\ "closeServer" \in W1.failing
              THEN ReleaseFails(W1, "closeServer", W1.socketServer)
              ELSE releaseSocketServer(W1)
        W3 == IF W2.thrown # "none" THEN W2
              ELSE IF W2.ptyProcess # 0 /\ "kill" \in W2.failing
              THEN ReleaseFails(W2, "kill", W2.ptyProcess)
              ELSE releasePtyProcess(W2)
        W4 == IF W3.thrown # "none" THEN W3
              ELSE IF W3.socketPath # 0 /\ "rmSocketPath" \in W3.failing
              THEN ReleaseFails(W3, "rmSocketPath", W3.socketPath)
              ELSE releaseSocketPath(W3)
        W5 == IF W4.thrown # "none" THEN W4
              ELSE IF W4.tmpDir # 0 /\ "rmTmpDir" \in W4.failing
              THEN ReleaseFails(W4, "rmTmpDir", W4.tmpDir)
              ELSE releaseTmpDir(W4)
    IN  IF W5.thrown # "none"
        THEN Emit([W5 EXCEPT !.crashed = TRUE, !.thrown = "none"], "uncaught", 0, W5.thrown)
        ELSE W5

stop(W) ==
    releaseTmpDir(releaseSocketPath(releasePtyProcess(
        releaseSocketServer(releaseRunnerSocket(clearCaches(W))))))

\* ----------------------------------------------------------- credentials
apiKeyOf(W) ==
    IF W.stored # "none" THEN W.stored
    ELSE IF W.envAuth # "none" THEN "tokEnv" ELSE "none"

hasBaseUrl(W) == W.stored # "none" \/ W.envAuth = "keyUrl"

\* --------------------------------------------------------------- spawning
FreeWorkers(W) == {w \in WorkerIds : W.workers[w].st = "none"}

\* spawnOk: whether pty.spawn succeeds.
spawnPty(W, spawnOk) ==
    IF W.socketPath = 0 THEN Throw(W, "socketPath not set")
    ELSE IF ~spawnOk THEN Fail(W, "spawn failed")
    ELSE IF FreeWorkers(W) = {} \/ W.budget.spawn = 0 THEN [W EXCEPT !.overflow = TRUE]
    ELSE LET p == CHOOSE w \in FreeWorkers(W) : \A x \in FreeWorkers(W) : w <= x
             token == IF W.stored # "none" THEN W.stored
                      ELSE IF W.envAuth # "none" THEN "tokEnv" ELSE "none"
         IN  Emit([W EXCEPT !.workers[p] = [st |-> "live", addr |-> W.socketPath,
                                            token |-> token],
                            !.ptyProcess = p,
                            !.budget.spawn = @ - 1],
                  "spawn", p, "")


\* The exit codes of a worker: a clean exit and a crash.
ExitCodes == {0, 137}

\* An exit listener that reports a crash to the viewers.
onExitReportingCrash(W, w, code) ==
    LET W1 == Emit([W EXCEPT !.workers[w].st = "exited"], "exit", w, code)
    IN  stop(IF code # 0 THEN sendToClients(W1, Msg("session.error", "worker crashed"))
             ELSE W1)

\* The listener spawnPty() gives p.onExit: it looks at no exit code.
onExit(W, w, code) ==
    stop(Emit([W EXCEPT !.workers[w].st = "exited"], "exit", w, code))

\* ------------------------------------------------------- start sequence
FreeStarts(W) == {s \in StartIds : W.starts[s].pc = "unused"}

\* A catch handler that reports the failure and leaves the Session as it is.
catchStartWithoutStop(W, message) ==
    LET W1 == pushTerminalData(Emit([W EXCEPT !.thrown = "none"], "catch", 0, message),
                               SessionErrorLine)
    IN  sendToClients(W1, Msg("session.error", message))

\* The handler that ensureStarted attaches to the promise of start().
catchStart(W, message) ==
    LET W1 == pushTerminalData(Emit([W EXCEPT !.thrown = "none"], "catch", 0, message),
                               SessionErrorLine)
        W2 == sendToClients(W1, Msg("session.error", message))
    IN  stop(W2)

\* Runs start() up to its first await (mkdtemp).
ensureStarted(W) ==
    IF W.startPromise # 0 THEN W
    ELSE IF FreeStarts(W) = {} \/ W.budget.start = 0 THEN [W EXCEPT !.overflow = TRUE]
    ELSE LET s == CHOOSE x \in FreeStarts(W) : \A y \in FreeStarts(W) : x <= y
         IN  Emit([W EXCEPT !.starts[s] = [pc |-> "mkdtemp", key |-> "none"],
                            !.startPromise = s,
                            !.budget.start = @ - 1],
                  "start", s, "")

\* A step of start() ended: if it threw, the catch handler runs.
startStepEnd(W) == IF W.thrown # "none" THEN catchStart(W, W.thrown) ELSE W

\* start(), from the end of mkdtemp to the await of the listen.
startAfterMkdtemp(W, s, ok) ==
    IF ~ok
    THEN startStepEnd(Fail([W EXCEPT !.starts[s].pc = "done"], "mkdtemp failed"))
    ELSE [W EXCEPT !.dirs = @ \cup {s}, !.tmpDir = s, !.socketPath = s,
                   !.starts[s].pc = "listen"]

\* start(), after the credential is known to be usable or not needed.
startSpawn(W, s, spawnOk) ==
    startStepEnd(spawnPty([W EXCEPT !.starts[s].pc = "done"], spawnOk))

\* start(), from the end of startSocketServer() to its return or next await.
\* The listen fails (ok is false) for a reason of the system, or because a
\* stop() removed the directory before the socket was bound.
startAfterListen(W, s, ok, spawnOk) ==
    IF ~ok
    THEN startStepEnd(IF s \in W.dirs
                      THEN Fail([W EXCEPT !.starts[s].pc = "done"], "listen failed")
                      ELSE Throw([W EXCEPT !.starts[s].pc = "done"], "listen failed"))
    ELSE LET W1 == [W EXCEPT !.listening = @ \cup {s},
                             !.sockFiles = IF s \in W.dirs THEN @ \cup {s} ELSE @,
                             !.socketServer = s]
         IN  IF W1.runner = "mock" THEN startSpawn(W1, s, spawnOk)
             ELSE IF apiKeyOf(W1) = "none"
             THEN pushTerminalData([W1 EXCEPT !.starts[s].pc = "done"],
                                   NotAuthenticatedLine)
             ELSE IF hasBaseUrl(W1)
             THEN [W1 EXCEPT !.starts[s] = [pc |-> "validate", key |-> apiKeyOf(W1)]]
             ELSE startSpawn(W1, s, spawnOk)

\* start(), from the end of validateAccessToken() to its return.
startAfterValidate(W, s, ok, spawnOk) ==
    IF ~ok
    THEN pushTerminalData([W EXCEPT !.starts[s].pc = "done"], AuthInvalidLine)
    ELSE startSpawn(Emit(W, "validated", s, W.starts[s].key), s, spawnOk)

\* ------------------------------------------------------- attach and detach
\* attach() that begins the start sequence before it replays the state.
attachStartingFirst(W, v) ==
    IF W.disposed THEN Emit([W EXCEPT !.ws[v] = "closed"], "closeWs", v, "")
    ELSE LET W0 == IF W.idleTimer # "null"
                   THEN Emit([W EXCEPT !.idleTimer = "null"], "clearTimeout", 0, W.idleTimer)
                   ELSE W
             W1 == [W0 EXCEPT !.clients = @ \cup {v},
                              !.expect[v] = W.terminalBuffer,
                              !.recvTerm[v] = <<>>,
                              !.recvUi[v] = << >>,
                              !.replayed[v] = Len(W.terminalBuffer)]
             W2 == ensureStarted(Emit(W1, "register", v, ""))
             W3 == flushTerminalBacklog(W2, v)
             W4 == sendToClient(W3, v, Msg("ui.state", W3.lastUiState))
         IN  sendToolUiStates(W4, v, 1)

\* attach() that sends the new viewer the empty UI state, not the cached one.
attachSendingEmptyUiState(W, v) ==
    IF W.disposed THEN Emit([W EXCEPT !.ws[v] = "closed"], "closeWs", v, "")
    ELSE LET W0 == IF W.idleTimer # "null"
                   THEN Emit([W EXCEPT !.idleTimer = "null"], "clearTimeout", 0, W.idleTimer)
                   ELSE W
             W1 == [W0 EXCEPT !.clients = @ \cup {v},
                              !.expect[v] = W.terminalBuffer,
                              !.recvTerm[v] = <<>>,
                              !.recvUi[v] = << >>,
                              !.replayed[v] = Len(W.terminalBuffer)]
             W2 == flushTerminalBacklog(Emit(W1, "register", v, ""), v)
             W3 == sendToClient(W2, v, Msg("ui.state", EmptyUiState))
             W4 == sendToolUiStates(W3, v, 1)
         IN  ensureStarted(W4)

\* attach() that leaves a pending idle timer alone.
attachKeepingTimer(W, v) ==
    IF W.disposed THEN Emit([W EXCEPT !.ws[v] = "closed"], "closeWs", v, "")
    ELSE LET W1 == [W EXCEPT !.clients = @ \cup {v},
                             !.expect[v] = W.terminalBuffer,
                             !.recvTerm[v] = <<>>,
                             !.recvUi[v] = << >>,
                             !.replayed[v] = Len(W.terminalBuffer)]
             W2 == flushTerminalBacklog(Emit(W1, "register", v, ""), v)
             W3 == sendToClient(W2, v, Msg("ui.state", W2.lastUiState))
             W4 == sendToolUiStates(W3, v, 1)
         IN  ensureStarted(W4)

attach(W, v) ==
    IF W.disposed THEN Emit([W EXCEPT !.ws[v] = "closed"], "closeWs", v, "")
    ELSE LET W0 == IF W.idleTimer # "null"
                   THEN Emit([W EXCEPT !.idleTimer = "null"], "clearTimeout", 0, W.idleTimer)
                   ELSE W
             W1 == [W0 EXCEPT !.clients = @ \cup {v},
                              !.expect[v] = W.terminalBuffer,
                              !.recvTerm[v] = <<>>,
                              !.recvUi[v] = << >>,
                              !.replayed[v] = Len(W.terminalBuffer)]
             W2 == flushTerminalBacklog(Emit(W1, "register", v, ""), v)
             W3 == sendToClient(W2, v, Msg("ui.state", W2.lastUiState))
             W4 == sendToolUiStates(W3, v, 1)
         IN  ensureStarted(W4)

\* detach() that forgets to take the viewer out of the set.
detachKeepingClient(W, v) ==
    IF W.clients \ {v} # {} THEN W
    ELSE IF W.idleTimer # "null" THEN W
    ELSE Emit([W EXCEPT !.idleTimer = "armed"], "armIdleTimer", 0, "")

detach(W, v) ==
    LET W1 == [W EXCEPT !.clients = @ \ {v}]
    IN  IF W1.clients # {} THEN W1
        ELSE IF W1.idleTimer # "null" THEN W1
        ELSE Emit([W1 EXCEPT !.idleTimer = "armed"], "armIdleTimer", 0, "")

RECURSIVE closeAll(_, _)
closeAll(W, vs) ==
    IF vs = {} THEN W
    ELSE LET v == CHOOSE x \in vs : TRUE
         IN  closeAll(Emit([W EXCEPT !.ws[v] = "closed"], "closeWs", v, ""), vs \ {v})

\* dispose() without the check of the disposed flag.
disposeAgain(W0) ==
    LET W  == Emit(W0, "dispose", 0, "")
        W1 == IF W.idleTimer # "null"
              THEN Emit([W EXCEPT !.idleTimer = "null"], "clearTimeout", 0, W.idleTimer)
              ELSE W
        W2 == stop([W1 EXCEPT !.disposed = TRUE])
    IN  [closeAll(W2, W2.clients) EXCEPT !.clients = {}]

dispose(W0) ==
    LET W == Emit(W0, "dispose", 0, "")
    IN  IF W.disposed THEN W
        ELSE LET W1 == IF W.idleTimer # "null"
                       THEN Emit([W EXCEPT !.idleTimer = "null"], "clearTimeout", 0,
                                 W.idleTimer)
                       ELSE W
                 W2 == stop([W1 EXCEPT !.disposed = TRUE])
             IN  [closeAll(W2, W2.clients) EXCEPT !.clients = {}]

\* The close and error listeners of a viewer connection: the Session's own
\* (detach), then, for a per-connection mock Session, the server's (dispose).
onWsGone(W, v) ==
    LET W1 == detach(W, v)
    IN  IF W1.runner = "mock" THEN dispose(W1) ELSE W1

\* ----------------------------------------------------------------- restart
FreeRestarts(W) == {r \in RestartIds : W.restarts[r].pc = "unused"}

\* An exception that nothing catches: out of a listener, or out of a rejected
\* promise nobody handles.
uncaught(W) ==
    IF W.thrown # "none"
    THEN Emit([W EXCEPT !.crashed = TRUE], "uncaught", 0, W.thrown)
    ELSE W

restartPty(W, spawnOk) ==
    IF W.disposed THEN W
    ELSE LET W1 == [(IF W.runnerSocket # 0 THEN destroySocket(W, W.runnerSocket) ELSE W)
                       EXCEPT !.runnerSocket = 0]
             W2 == [(IF W1.ptyProcess # 0 THEN killPty(W1, W1.ptyProcess) ELSE W1)
                       EXCEPT !.ptyProcess = 0]
         IN  IF W2.runner = "mock" THEN uncaught(spawnPty(W2, spawnOk))
             ELSE IF apiKeyOf(W2) = "none"
             THEN pushTerminalData(W2, NotAuthenticatedLine)
             ELSE IF hasBaseUrl(W2)
             THEN IF FreeRestarts(W2) = {} THEN [W2 EXCEPT !.overflow = TRUE]
                  ELSE LET r == CHOOSE x \in FreeRestarts(W2) :
                                    \A y \in FreeRestarts(W2) : x <= y
                       IN  Emit([W2 EXCEPT !.restarts[r] =
                                     [pc |-> "validate", key |-> apiKeyOf(W2)]],
                                "validate", r, "")
             ELSE uncaught(spawnPty(W2, spawnOk))

\* The async function of restartPty(), after validateAccessToken().
restartAfterValidate(W, r, ok, spawnOk) ==
    LET W1 == [W EXCEPT !.restarts[r].pc = "done"]
    IN  IF ~ok THEN pushTerminalData(W1, AuthInvalidLine)
        ELSE uncaught(spawnPty(Emit(W1, "validated", r, W.restarts[r].key), spawnOk))

\* ------------------------------------------------------- viewer commands
\* forwardSubmit() without the return after the write to the connection.
forwardSubmitFallingThrough(W, text) ==
    LET W1 == IF W.runnerSocket # 0
              THEN Emit(W, "socketWrite", W.runnerSocket, Msg("runner.submit", text))
              ELSE W
    IN  IF W1.ptyProcess # 0
        THEN Emit(Emit(W1, "ptyWrite", W1.ptyProcess, text), "ptyWrite", W1.ptyProcess, "\r")
        ELSE W1

forwardSubmit(W, text) ==
    IF W.runnerSocket # 0
    THEN Emit(W, "socketWrite", W.runnerSocket, Msg("runner.submit", text))
    ELSE IF W.ptyProcess # 0
    THEN Emit(Emit(W, "ptyWrite", W.ptyProcess, text), "ptyWrite", W.ptyProcess, "\r")
    ELSE W

\* forwardUiAction() with a fallback to the terminal, as forwardSubmit() has.
forwardUiActionFallingBack(W, action) ==
    IF W.runnerSocket # 0
    THEN Emit(W, "socketWrite", W.runnerSocket, Msg("runner.ui_action", action))
    ELSE IF W.ptyProcess # 0
    THEN Emit(W, "ptyWrite", W.ptyProcess, action)
    ELSE W

forwardUiAction(W, action) ==
    IF W.runnerSocket # 0
    THEN Emit(W, "socketWrite", W.runnerSocket, Msg("runner.ui_action", action))
    ELSE W

\* A field that a message lacks, or that has another type than the protocol
\* gives it.
Missing == "(missing)"

\* isObject(msg) && typeof msg.type === "string": a message that is no object
\* or has no string type is written with the type "none".
HasStringType(msg) == msg.type # "none"

\* Commands of unexpected shape: no object or no string type, a type that is
\* not known, and the known types without their fields.
MalformedClientMessages ==
    {Msg("none", Missing), Msg("viewer.unknown", Missing),
     Msg("terminal.resize", Missing), Msg("terminal.key", Missing),
     Msg("input.submit", Missing), Msg("ui.action", Missing),
     Msg("ui.tool_ui.event", Missing)}

\* The commands of a viewer other than session.restart, well-formed: sizes are
\* positive numbers, data and text are strings.
ClientMessages ==
    {Msg("session.init", ""),
     Msg("terminal.resize", "80x24"), Msg("terminal.resize", "120x36"),
     Msg("terminal.key", "x"), Msg("terminal.key", "y"),
     Msg("input.submit", "hello"), Msg("input.submit", "bye"),
     Msg("ui.action", "approval.cancel"),
     Msg("ui.tool_ui.event", "t1")}

\* onWsMessage() that echoes a key into the backlog when no worker runs.
onWsMessageEchoing(W, msg) ==
    IF W.disposed THEN W
    ELSE IF ~HasStringType(msg) THEN W
    ELSE IF msg.type = "terminal.resize"
    THEN IF msg.body # Missing /\ W.ptyProcess # 0
         THEN Emit(W, "ptyResize", W.ptyProcess, msg.body) ELSE W
    ELSE IF msg.type = "terminal.key"
    THEN IF msg.body # Missing /\ W.ptyProcess # 0
         THEN Emit(W, "ptyWrite", W.ptyProcess, msg.body)
         ELSE pushTerminalData(W, RunnerLogLine)
    ELSE IF msg.type = "input.submit"
    THEN IF msg.body = Missing THEN W ELSE forwardSubmit(W, msg.body)
    ELSE IF msg.type = "ui.action" THEN forwardUiAction(W, msg.body)
    ELSE IF msg.type = "ui.tool_ui.event"
    THEN IF W.runnerSocket # 0 /\ msg.body # Missing
         THEN Emit(W, "socketWrite", W.runnerSocket, Msg("runner.tool_ui.event", msg.body))
         ELSE W
    ELSE W

\* onWsMessage() for these commands; session.restart is restartPty().
onWsMessage(W, msg) ==
    IF W.disposed THEN W
    ELSE IF ~HasStringType(msg) THEN W
    ELSE IF msg.type = "terminal.resize"
    THEN IF msg.body # Missing /\ W.ptyProcess # 0
         THEN Emit(W, "ptyResize", W.ptyProcess, msg.body) ELSE W
    ELSE IF msg.type = "terminal.key"
    THEN IF msg.body # Missing /\ W.ptyProcess # 0
         THEN Emit(W, "ptyWrite", W.ptyProcess, msg.body) ELSE W
    ELSE IF msg.type = "input.submit"
    THEN IF msg.body = Missing THEN W ELSE forwardSubmit(W, msg.body)
    ELSE IF msg.type = "ui.action" THEN forwardUiAction(W, msg.body)
    ELSE IF msg.type = "ui.tool_ui.event"
    THEN IF W.runnerSocket # 0 /\ msg.body # Missing
         THEN Emit(W, "socketWrite", W.runnerSocket, Msg("runner.tool_ui.event", msg.body))
         ELSE W
    ELSE W

\* ------------------------------------------------------ control channel
\* The connection listener of startSocketServer().
onConnection(W, c) ==
    IF W.runnerSocket # 0
    THEN Emit([W EXCEPT !.conns[c] = "rejected"], "destroySocket", c, "")
    ELSE Emit([W EXCEPT !.runnerSocket = c, !.conns[c] = "established"], "accept", c, "")

\* Close and error listeners that take the loss of the connection for the end
\* of the worker.
onSocketGoneStopping(W, c) == stop([W EXCEPT !.runnerSocket = 0, !.conns[c] = "closed"])

\* The close and error listeners of an accepted connection.
onSocketGone(W, c) == [W EXCEPT !.runnerSocket = 0, !.conns[c] = "closed"]

HasTool(W, id) == \E i \in 1 .. Len(W.lastToolUiStates) : W.lastToolUiStates[i].toolCallId = id

\* A cache that is a list: every state is added at its end.
setToolUiStateAppending(W, t) == [W EXCEPT !.lastToolUiStates = Append(@, t)]

\* Map.prototype.set: a new key goes last, a known key keeps its place.
setToolUiState(W, t) ==
    IF HasTool(W, t.toolCallId)
    THEN [W EXCEPT !.lastToolUiStates =
             [i \in 1 .. Len(@) |-> IF @[i].toolCallId = t.toolCallId THEN t ELSE @[i]]]
    ELSE [W EXCEPT !.lastToolUiStates = Append(@, t)]

\* onRunnerMessage() that lays the new UI state over the cached one: a field
\* the new state does not have stays.
onRunnerMessageMerging(W, msg) ==
    IF ~HasStringType(msg) THEN W
    ELSE IF msg.type = "runner.ui_state"
    THEN LET merged == [msg.body EXCEPT !.currentApproval =
                            IF @ = "absent" THEN W.lastUiState.currentApproval ELSE @]
         IN  sendToClients([W EXCEPT !.lastUiState = merged], Msg("ui.state", merged))
    ELSE IF msg.type = "runner.ready"
    THEN sendToClients(W, Msg("ui.state", W.lastUiState))
    ELSE IF msg.type = "runner.log"
    THEN pushTerminalData(W, RunnerLogLine)
    ELSE IF msg.type = "runner.tool_ui.state"
    THEN sendToClients(setToolUiState(W, msg.body), Msg("ui.tool_ui.state", msg.body))
    ELSE W

\* onRunnerMessage() that takes runner.ready for a new beginning: the cached
\* UI state is reset before it is sent.
onRunnerMessageResetting(W, msg) ==
    IF ~HasStringType(msg) THEN W
    ELSE IF msg.type = "runner.ui_state"
    THEN sendToClients([W EXCEPT !.lastUiState = msg.body], Msg("ui.state", msg.body))
    ELSE IF msg.type = "runner.ready"
    THEN sendToClients([W EXCEPT !.lastUiState = EmptyUiState],
                       Msg("ui.state", EmptyUiState))
    ELSE IF msg.type = "runner.log"
    THEN pushTerminalData(W, RunnerLogLine)
    ELSE IF msg.type = "runner.tool_ui.state"
    THEN sendToClients(setToolUiState(W, msg.body), Msg("ui.tool_ui.state", msg.body))
    ELSE W

onRunnerMessage(W, msg) ==
    IF ~HasStringType(msg) THEN W
    ELSE IF msg.type = "runner.ui_state"
    THEN sendToClients([W EXCEPT !.lastUiState = msg.body], Msg("ui.state", msg.body))
    ELSE IF msg.type = "runner.ready"
    THEN sendToClients(W, Msg("ui.state", W.lastUiState))
    ELSE IF msg.type = "runner.log"
    THEN pushTerminalData(W, RunnerLogLine)
    ELSE IF msg.type = "runner.tool_ui.state"
    THEN sendToClients(setToolUiState(W, msg.body), Msg("ui.tool_ui.state", msg.body))
    ELSE W

ToolUiStates ==
    [toolCallId : ToolCallIds, toolName : {"AskUserQuestion"}, state : {"q1", "q2"}]

RunnerMessages ==
    {Msg("runner.ui_state", s) : s \in UiStates}
        \cup {Msg("runner.ready", ""), Msg("runner.log", "")}
        \cup {Msg("runner.tool_ui.state", t) : t \in ToolUiStates}

\* Frames of unexpected shape: no object or no string type, a type that is not
\* known, runner.ui_state without a state and runner.tool_ui.state without
\* its fields (what the handler reads there is undefined).
UndefinedUiState ==
    [activeOverlay |-> "undefined", pendingApprovals |-> <<>>, currentApprovalIndex |-> 0,
     currentApproval |-> "undefined"]
UndefinedToolUiState ==
    [toolCallId |-> "undefined", toolName |-> "undefined", state |-> "undefined"]

MalformedRunnerMessages ==
    {Msg("none", ""), Msg("runner.unknown", ""),
     Msg("runner.ui_state", UndefinedUiState),
     Msg("runner.tool_ui.state", UndefinedToolUiState)}

\* ================================================================ actions
Running == ~crashed

\* A viewer connects: wss.on("connection") calls attach.  A mock Session is
\* made for one connection, so it sees one attach.
Attach(v) ==
    /\ Running
    /\ ws[v] = "new"
    /\ runner = "mock" => \A x \in Viewers : ws[x] = "new"
    /\ budget.attach > 0
    /\ LET W == attach([World EXCEPT !.ws[v] = "open", !.budget.attach = @ - 1], v)
       IN  ~W.overflow /\ Apply("attach", TRUE, W)

\* The error event of a viewer connection.
WsError(v) ==
    /\ Running
    /\ ws[v] = "open"
    /\ budget.wsError > 0
    /\ Apply("wsError", TRUE, onWsGone([World EXCEPT !.ws[v] = "errored",
                                               !.budget.wsError = @ - 1,
                                               !.expect[v] = <<>>,
                                               !.recvTerm[v] = <<>>,
                                               !.recvUi[v] = << >>,
                                               !.replayed[v] = 0], v))

\* The close event of a viewer connection.
WsClose(v) ==
    /\ Running
    /\ ws[v] \in {"open", "errored"}
    /\ Apply("wsClose", TRUE, onWsGone([World EXCEPT !.ws[v] = "closed",
                                               !.expect[v] = <<>>,
                                               !.recvTerm[v] = <<>>,
                                               !.recvUi[v] = << >>,
                                               !.replayed[v] = 0], v))

\* The idle timer of detach() fires.
IdleTimerFire ==
    /\ Running
    /\ idleTimer = "armed"
    /\ Apply("idleTimer", TRUE,
             stop([World EXCEPT !.idleTimer = "fired",
                                !.prevRun = {w \in WorkerIds : workers[w].st # "none"}]))

StartMkdtempDone(s, ok) ==
    /\ Running
    /\ starts[s].pc = "mkdtemp"
    /\ LET W == startAfterMkdtemp(World, s, ok)
       IN  ~W.overflow /\ Apply("startMkdtemp", ok, W)

StartListenDone(s, ok, spawnOk) ==
    /\ Running
    /\ starts[s].pc = "listen"
    /\ LET W == startAfterListen(World, s, ok, spawnOk)
       IN  ~W.overflow /\ Apply("startListen", ok, W)

StartValidateDone(s, ok, spawnOk) ==
    /\ Running
    /\ starts[s].pc = "validate"
    /\ LET W == startAfterValidate(World, s, ok, spawnOk)
       IN  ~W.overflow /\ Apply("startValidate", ok, W)

\* An attached viewer sends session.restart.
Restart(spawnOk) ==
    /\ Running
    /\ Attached # {}
    /\ budget.restart > 0
    /\ LET W == restartPty([World EXCEPT !.budget.restart = @ - 1], spawnOk)
       IN  ~W.overflow /\ Apply("restart", TRUE, W)

RestartValidateDone(r, ok, spawnOk) ==
    /\ Running
    /\ restarts[r].pc = "validate"
    /\ LET W == restartAfterValidate(World, r, ok, spawnOk)
       IN  ~W.overflow /\ Apply("restartValidate", ok, W)

\* A worker process exits, of itself or after a kill: p.onExit.
WorkerExit(w, code) ==
    /\ Running
    /\ workers[w].st \in {"live", "killed"}
    /\ Apply("workerExit", TRUE, onExit(World, w, code))

\* A worker process that has not exited writes to its terminal: p.onData.
PtyData(w) ==
    /\ Running
    /\ workers[w].st \in {"live", "killed"}
    /\ budget.data > 0
    /\ Apply("ptyData", TRUE,
             pushTerminalData([World EXCEPT !.budget.data = @ - 1],
                              PtyChunk(w, MaxData - budget.data + 1)))

\* A worker connects to the socket address it was spawned with.
Connect(w) ==
    /\ Running
    /\ workers[w].st \in {"live", "killed"}
    /\ conns[w] = "none"
    /\ workers[w].addr \in listening
    /\ workers[w].addr \in sockFiles
    /\ Apply("connection", TRUE, onConnection(World, w))

\* The close (or error) event of an accepted control connection.
SocketGone(c) ==
    /\ Running
    /\ conns[c] \in {"established", "destroyed"}
    /\ Apply("socketGone", TRUE, onSocketGone(World, c))

\* A frame arrives on an accepted, open control connection.
RunnerMessage(c, msg) ==
    /\ Running
    /\ conns[c] = "established"
    /\ budget.msgs > 0
    /\ Apply("runnerMessage", TRUE,
             onRunnerMessage(
                 Emit([World EXCEPT !.budget.msgs = @ - 1,
                                    !.emittedUi = IF msg.type = "runner.ui_state"
                                                  THEN << msg.body >> ELSE @,
                                    !.emittedTools =
                                        IF msg.type = "runner.tool_ui.state"
                                        THEN Append(@, msg.body) ELSE @],
                      "frame", c, msg),
                 msg))

\* An attached viewer sends a command other than session.restart.
Command(v, msg) ==
    /\ Running
    /\ ws[v] = "open"
    /\ budget.commands
    /\ Apply("wsMessage", TRUE, onWsMessage(Emit(World, "message", v, msg), msg))

\* Sign-in or logout: the auth flow rewrites the stored credential.
CredChange(c) ==
    /\ Running
    /\ runner # "mock"
    /\ budget.cred > 0
    /\ c # stored
    /\ Apply("credChange", TRUE, [World EXCEPT !.stored = c, !.budget.cred = @ - 1])

\* What the environment may do in a run: how many viewers attach, workers are
\* spawned, start sequences begin, session.restart commands arrive, pty chunks
\* and control-channel frames arrive, how often the stored credential changes
\* how many system calls fail, and how many viewer connections raise an error
\* event before their close event.
Budget(nAttach, nSpawn, nStart, nRestart, nData, nMsgs, nCred, nFail, nWsError) ==
    [attach |-> nAttach, spawn |-> nSpawn, start |-> nStart, restart |-> nRestart,
     data |-> nData, msgs |-> nMsgs, cred |-> nCred, fail |-> nFail, wsError |-> nWsError,
     commands |-> FALSE, noise |-> 0]

\* The runs that are explored:
\*   a per-connection mock Session through its restarts, failing system calls
\*   and the other commands of its viewer;
\*   a shared Session with one viewer through sign-in, validation and restart;
\*   a shared Session with several viewers through the output of one worker;
\*   a shared Session with several viewers through idle stops and new starts.
Profiles ==
    { [runner |-> "mock", stored |-> {"none"}, envAuth |-> {"none"},
       budget |-> [Budget(1, MaxWorkers, 1, MaxRestarts, 0, 0, 0, MaxFailures, MaxWsErrors)
                      EXCEPT !.commands = TRUE]],
      [runner |-> "letta", stored |-> {"none", "tokA"}, envAuth |-> {"none", "key"},
       budget |-> Budget(1, MaxWorkers - 1, 1, MaxRestarts - 1, 0, 0, MaxCredChanges, 0, 0)],
      [runner |-> "letta", stored |-> {"tokA"}, envAuth |-> {"none"},
       budget |-> Budget(MaxViewers, 1, 1, 0, MaxData, MaxRunnerMsgs, 0, 0, MaxWsErrors)],
      [runner |-> "letta", stored |-> {"tokA"}, envAuth |-> {"none"},
       budget |-> Budget(MaxViewers, MaxWorkers - 1, MaxStarts, 0, MaxData - 1,
                         MaxRunnerMsgs - 1, 0, 0, 0)] }

InitOf(profiles) ==
    /\ \E p \in profiles :
          /\ runner = p.runner
          /\ stored \in p.stored
          /\ envAuth \in p.envAuth
          /\ budget = p.budget
    /\ clients = {}
    /\ idleTimer = "null"
    /\ startPromise = 0
    /\ disposed = FALSE
    /\ terminalBuffer = <<>>
    /\ lastToolUiStates = <<>>
    /\ ptyProcess = 0
    /\ socketServer = 0
    /\ runnerSocket = 0
    /\ tmpDir = 0
    /\ socketPath = 0
    /\ lastUiState = EmptyUiState
    /\ ws = [v \in Viewers |-> "new"]
    /\ workers = [w \in WorkerIds |-> [st |-> "none", addr |-> 0, token |-> "none"]]
    /\ conns = [w \in WorkerIds |-> "none"]
    /\ listening = {}
    /\ dirs = {}
    /\ sockFiles = {}
    /\ starts = [s \in StartIds |-> [pc |-> "unused", key |-> "none"]]
    /\ restarts = [r \in RestartIds |-> [pc |-> "unused", key |-> "none"]]
    /\ crashed = FALSE
    /\ last = [h |-> "init", ok |-> TRUE, fx |-> <<>>]
    /\ expect = [v \in Viewers |-> <<>>]
    /\ recvTerm = [v \in Viewers |-> <<>>]
    /\ replayed = [v \in Viewers |-> 0]
    /\ recvUi = [v \in Viewers |-> << >>]
    /\ emittedUi = << >>
    /\ emittedTools = << >>
    /\ pushed = << >>
    /\ prevRun = {}

Init == InitOf(Profiles) /\ nd = NoStream /\ mock = NoMock

Next ==
    \/ \E v \in Viewers : Attach(v)
    \/ \E v \in Viewers : WsError(v)
    \/ \E v \in Viewers : WsClose(v)
    \/ IdleTimerFire
    \/ \E s \in StartIds, ok \in BOOLEAN : StartMkdtempDone(s, ok)
    \/ \E s \in StartIds, ok \in BOOLEAN, spawnOk \in BOOLEAN : StartListenDone(s, ok, spawnOk)
    \/ \E s \in StartIds, ok \in BOOLEAN, spawnOk \in BOOLEAN : StartValidateDone(s, ok, spawnOk)
    \/ \E spawnOk \in BOOLEAN : Restart(spawnOk)
    \/ \E r \in RestartIds, ok \in BOOLEAN, spawnOk \in BOOLEAN :
            RestartValidateDone(r, ok, spawnOk)
    \/ \E w \in WorkerIds, code \in ExitCodes : WorkerExit(w, code)
    \/ \E w \in WorkerIds : PtyData(w)
    \/ \E w \in WorkerIds : Connect(w)
    \/ \E c \in WorkerIds : SocketGone(c)
    \/ \E c \in WorkerIds, msg \in RunnerMessages : RunnerMessage(c, msg)
    \/ \E v \in Viewers, msg \in ClientMessages : Command(v, msg)
    \/ \E c \in {"none"} \cup Tokens : CredChange(c)

Spec == Init /\ [][Next]_vars

\* -------------------------------------------------- a stream and its decoder
\* The most lines of a stream.
MaxLines == 3

\* The messages that are sent: a number, the empty string, strings of a line
\* feed, of a blank and of a backslash and a letter, and arrays of these.
Messages ==
    { Num1, InArray(Num1), Str(<< >>), Str(<< NL >>), Str(<< SP >>),
      InArray(Str(<< Backslash, "n" >>)) }

\* What else a stream may hold: an empty line, a blank line, a malformed
\* line, a line that ends in CR NL, and the beginning of a line.
NoiseLines ==
    { << NL >>, << SP, CR, NL >>, << "[", "1", NL >>, << "1", CR, NL >>, << "[" >> }

StreamItems ==
    {[noise |-> FALSE, m |-> m, text |-> encodeNdjson(m)] : m \in Messages}
        \cup {[noise |-> TRUE, m |-> NoMessage, text |-> l] : l \in NoiseLines}

RECURSIVE Flatten(_)
Flatten(items) ==
    IF items = << >> THEN << >> ELSE Head(items).text \o Flatten(Tail(items))

NdjsonInit ==
    /\ InitOf({[runner |-> "mock", stored |-> {"none"}, envAuth |-> {"none"},
                budget |-> Budget(0, 0, 0, 0, 0, 0, 0, 0, 0)]})
    /\ \E k \in 0 .. MaxLines : \E items \in [1 .. k -> StreamItems] :
          nd = [rest |-> Flatten(items), fed |-> << >>, buffer |-> << >>, out |-> << >>,
                thrown |-> FALSE,
                msgs |-> [i \in 1 .. k |-> items[i].m],
                framed |-> \A i \in 1 .. k : ~items[i].noise,
                chunks |-> 0]
    /\ mock = NoMock

\* The data listener of the control connection gets the next n characters of
\* the stream as one chunk.
Feed(n) ==
    /\ n <= Len(nd.rest)
    /\ ~nd.thrown
    /\ LET chunk == SubSeq(nd.rest, 1, n)
           p == ndjsonParse([buffer |-> nd.buffer, out |-> nd.out, thrown |-> FALSE], chunk)
       IN  nd' = [nd EXCEPT !.rest = SubSeq(@, n + 1, Len(@)),
                            !.fed = @ \o chunk,
                            !.chunks = @ + 1,
                            !.buffer = p.buffer,
                            !.out = p.out,
                            !.thrown = p.thrown]
    /\ UNCHANGED << runner, clients, idleTimer, startPromise, disposed, terminalBuffer,
                    lastToolUiStates, ptyProcess, socketServer, runnerSocket, tmpDir,
                    socketPath, lastUiState, ws, workers, conns, listening, dirs,
                    sockFiles, starts, restarts, stored, envAuth, crashed, budget, last,
                    expect, recvTerm, replayed, recvUi, emittedUi, emittedTools, pushed,
                    prevRun, mock >>

NdjsonNext == \E n \in 1 .. Len(nd.rest) : Feed(n)

NdjsonSpec == NdjsonInit /\ [][NdjsonNext]_vars

\* ------------------------------------------- messages of unexpected shape
\* A frame of unexpected shape arrives on the control connection.
MalformedFrame(c, msg) ==
    /\ Running
    /\ conns[c] = "established"
    /\ budget.noise > 0
    /\ Apply("malformedFrame", TRUE,
             onRunnerMessage(Emit([World EXCEPT !.budget.noise = @ - 1], "frame", c, msg),
                             msg))

\* An attached viewer sends a command of unexpected shape.
MalformedCommand(v, msg) ==
    /\ Running
    /\ ws[v] = "open"
    /\ budget.noise > 0
    /\ Apply("malformedCommand", TRUE,
             onWsMessage(Emit([World EXCEPT !.budget.noise = @ - 1], "message", v, msg),
                         msg))

NoiseProfiles ==
    { [runner |-> "letta", stored |-> {"tokA"}, envAuth |-> {"none"},
       budget |-> [Budget(MaxViewers, 1, 1, 0, 0, MaxRunnerMsgs - 1, 0, 0, 0)
                      EXCEPT !.noise = MaxNoise]] }

NoiseInit == InitOf(NoiseProfiles) /\ nd = NoStream /\ mock = NoMock

NoiseNext ==
    \/ \E v \in Viewers : Attach(v)
    \/ \E v \in Viewers : WsClose(v)
    \/ IdleTimerFire
    \/ \E s \in StartIds, ok \in BOOLEAN : StartMkdtempDone(s, ok)
    \/ \E s \in StartIds, ok \in BOOLEAN, spawnOk \in BOOLEAN : StartListenDone(s, ok, spawnOk)
    \/ \E s \in StartIds, ok \in BOOLEAN, spawnOk \in BOOLEAN : StartValidateDone(s, ok, spawnOk)
    \/ \E w \in WorkerIds, code \in ExitCodes : WorkerExit(w, code)
    \/ \E w \in WorkerIds : Connect(w)
    \/ \E c \in WorkerIds : SocketGone(c)
    \/ \E c \in WorkerIds, msg \in RunnerMessages : RunnerMessage(c, msg)
    \/ \E c \in WorkerIds, msg \in MalformedRunnerMessages : MalformedFrame(c, msg)
    \/ \E v \in Viewers, msg \in MalformedClientMessages : MalformedCommand(v, msg)

NoiseSpec == NoiseInit /\ [][NoiseNext]_vars

\* ------------------------------------------------- a Session that is disposed
\* dispose() is a public method of the exported class: here a caller disposes
\* of a shared Session at any moment, with viewers attached or not.
Dispose ==
    /\ Running
    /\ Apply("dispose", TRUE, dispose(World))

DisposeProfiles ==
    { [runner |-> "letta", stored |-> {"tokA"}, envAuth |-> {"none"},
       budget |-> Budget(MaxViewers, 1, 1, 0, MaxData - 1, MaxRunnerMsgs - 1, 0, 0,
                         MaxWsErrors)] }

DisposeInit == InitOf(DisposeProfiles) /\ nd = NoStream /\ mock = NoMock

DisposeNext ==
    \/ \E v \in Viewers : Attach(v)
    \/ \E v \in Viewers : WsError(v)
    \/ \E v \in Viewers : WsClose(v)
    \/ IdleTimerFire
    \/ \E s \in StartIds, ok \in BOOLEAN : StartMkdtempDone(s, ok)
    \/ \E s \in StartIds, ok \in BOOLEAN, spawnOk \in BOOLEAN : StartListenDone(s, ok, spawnOk)
    \/ \E s \in StartIds, ok \in BOOLEAN, spawnOk \in BOOLEAN : StartValidateDone(s, ok, spawnOk)
    \/ \E w \in WorkerIds, code \in ExitCodes : WorkerExit(w, code)
    \/ \E w \in WorkerIds : PtyData(w)
    \/ \E w \in WorkerIds : Connect(w)
    \/ \E c \in WorkerIds : SocketGone(c)
    \/ \E c \in WorkerIds, msg \in RunnerMessages : RunnerMessage(c, msg)
    \/ Dispose

DisposeSpec == DisposeInit /\ [][DisposeNext]_vars

\* ------------------------------------------- release steps that may fail
\* The idle timer fires, and the release steps in F raise when stop() calls
\* them.
IdleTimerFireFailing(F) ==
    /\ Running
    /\ idleTimer = "armed"
    /\ F # {} => budget.fail > 0
    /\ Apply("idleTimer", TRUE,
             stop([World EXCEPT !.idleTimer = "fired",
                                !.failing = F,
                                !.budget.fail = IF F # {} THEN @ - 1 ELSE @,
                                !.prevRun = {w \in WorkerIds : workers[w].st # "none"}]))

\* A worker exits, and the release steps in F raise when stop() calls them.
WorkerExitFailing(w, code, F) ==
    /\ Running
    /\ workers[w].st \in {"live", "killed"}
    /\ F # {} => budget.fail > 0
    /\ Apply("workerExit", TRUE,
             onExit([World EXCEPT !.failing = F,
                                  !.budget.fail = IF F # {} THEN @ - 1 ELSE @], w, code))

TeardownProfiles ==
    { [runner |-> "letta", stored |-> {"tokA"}, envAuth |-> {"none"},
       budget |-> Budget(MaxViewers, 1, 1, 0, 0, MaxRunnerMsgs - 1, 0, MaxFailures, 0)] }

TeardownInit == InitOf(TeardownProfiles) /\ nd = NoStream /\ mock = NoMock

TeardownNext ==
    \/ \E v \in Viewers : Attach(v)
    \/ \E v \in Viewers : WsClose(v)
    \/ \E F \in SUBSET ReleaseSteps : IdleTimerFireFailing(F)
    \/ \E s \in StartIds, ok \in BOOLEAN : StartMkdtempDone(s, ok)
    \/ \E s \in StartIds, ok \in BOOLEAN, spawnOk \in BOOLEAN : StartListenDone(s, ok, spawnOk)
    \/ \E s \in StartIds, ok \in BOOLEAN, spawnOk \in BOOLEAN : StartValidateDone(s, ok, spawnOk)
    \/ \E w \in WorkerIds, F \in SUBSET ReleaseSteps : WorkerExitFailing(w, 0, F)
    \/ \E w \in WorkerIds : Connect(w)
    \/ \E c \in WorkerIds : SocketGone(c)
    \/ \E c \in WorkerIds, msg \in RunnerMessages : RunnerMessage(c, msg)

TeardownSpec == TeardownInit /\ [][TeardownNext]_vars

\* ------------------------------------------------------- the mock worker
\* The most commands the viewer of a mock Session sends in a run.
MaxMockCommands == 2

ApprovalActions ==
    {"approval.approveCurrent", "approval.approveAlways", "approval.denyCurrent",
     "approval.cancel"}
SelectActions == {"model.select", "toolset.select", "system.select"}

\* What the viewer sends: composer lines the mock worker knows and one it
\* echoes, and the UI actions.
MockCommands ==
    {Msg("input.submit", t) : t \in {"/mock approval", "/model", "hello"}}
        \cup {Msg("ui.action", a) :
                 a \in ApprovalActions \cup SelectActions \cup {"overlay.open", "overlay.close"}}

\* handleUiAction() of the mock worker: the new state (the selected model,
\* toolset and prompt are not followed), and whether it logs and publishes.
handleUiAction(state, action) ==
    IF action = "overlay.open"
    THEN [state |-> setActiveOverlay(state, "model"), known |-> TRUE]
    ELSE IF action \in SelectActions \cup {"overlay.close"}
    THEN [state |-> setActiveOverlay(state, "null"), known |-> TRUE]
    ELSE IF action \in ApprovalActions
    THEN [state |-> setApprovals(state, << >>), known |-> TRUE]
    ELSE [state |-> state, known |-> FALSE]

\* The callback with a handleUiAction() that publishes the state as it was
\* before the action.
mockOnFramePublishingFirst(m, frame, n) ==
    LET log == [type |-> "runner.log", state |-> EmptyUiState, re |-> n]
        publish(st) == [type |-> "runner.ui_state", state |-> st, re |-> n]
    IN  IF frame.type = "runner.submit"
        THEN LET m1 == [m EXCEPT !.stdout = Append(@, "prompt")]
             IN  IF frame.body = "/mock approval"
                 THEN LET st == setApprovals(m.state, << "t1" >>)
                      IN  [m1 EXCEPT !.state = st, !.outbox = @ \o << log, publish(st) >>]
                 ELSE IF frame.body = "/model"
                 THEN LET st == setActiveOverlay(m.state, "model")
                      IN  [m1 EXCEPT !.state = st, !.outbox = Append(@, publish(st))]
                 ELSE [m1 EXCEPT !.stdout = Append(@, "echo")]
        ELSE IF frame.type = "runner.ui_action"
        THEN LET r == handleUiAction(m.state, frame.body)
             IN  IF r.known
                 THEN [m EXCEPT !.state = r.state,
                                !.outbox = @ \o << log, publish(m.state) >>]
                 ELSE m
        ELSE m

\* The callback of the mock worker's parser, for the n-th frame the Session
\* wrote: log(), publish() and process.stdout.write() in their order.
mockOnFrame(m, frame, n) ==
    LET log == [type |-> "runner.log", state |-> EmptyUiState, re |-> n]
        publish(st) == [type |-> "runner.ui_state", state |-> st, re |-> n]
    IN  IF frame.type = "runner.submit"
        THEN LET m1 == [m EXCEPT !.stdout = Append(@, "prompt")]
             IN  IF frame.body = "/mock approval"
                 THEN LET st == setApprovals(m.state, << "t1" >>)
                      IN  [m1 EXCEPT !.state = st, !.outbox = @ \o << log, publish(st) >>]
                 ELSE IF frame.body = "/model"
                 THEN LET st == setActiveOverlay(m.state, "model")
                      IN  [m1 EXCEPT !.state = st, !.outbox = Append(@, publish(st))]
                 ELSE [m1 EXCEPT !.stdout = Append(@, "echo")]
        ELSE IF frame.type = "runner.ui_action"
        THEN LET r == handleUiAction(m.state, frame.body)
             IN  IF r.known
                 THEN [m EXCEPT !.state = r.state,
                                !.outbox = @ \o << log, publish(r.state) >>]
                 ELSE m
        ELSE m

\* sock.on("connect") of the mock worker: runner.ready, the banner, publish().
MockOnConnect ==
    /\ Running
    /\ ~mock.greeted
    /\ \E c \in WorkerIds : conns[c] = "established"
    /\ mock' = [mock EXCEPT !.greeted = TRUE,
                            !.stdout = Append(@, "banner"),
                            !.outbox = @ \o << [type |-> "runner.ready",
                                                state |-> EmptyUiState, re |-> 0],
                                               [type |-> "runner.ui_state",
                                                state |-> mock.state, re |-> 0] >>]
    /\ UNCHANGED << runner, clients, idleTimer, startPromise, disposed, terminalBuffer,
                    lastToolUiStates, ptyProcess, socketServer, runnerSocket, tmpDir,
                    socketPath, lastUiState, ws, workers, conns, listening, dirs,
                    sockFiles, starts, restarts, stored, envAuth, crashed, budget, last,
                    expect, recvTerm, replayed, recvUi, emittedUi, emittedTools, pushed,
                    prevRun, nd >>

\* The frames a handler wrote to the control connection, numbered from n + 1.
RECURSIVE Written(_, _)
Written(fx, n) ==
    IF fx = << >> THEN << >>
    ELSE IF Head(fx).op = "socketWrite"
    THEN << [frame |-> Head(fx).m, n |-> n + 1] >> \o Written(Tail(fx), n + 1)
    ELSE Written(Tail(fx), n)

\* The viewer sends a command; what the Session writes to an open control
\* connection reaches the mock worker.
MockCommand(v, msg) ==
    /\ Running
    /\ ws[v] = "open"
    /\ mock.quota > 0
    /\ LET W == onWsMessage(Emit(World, "message", v, msg), msg)
           frames == IF runnerSocket # 0 /\ conns[runnerSocket] = "established"
                     THEN Written(W.fx, Len(mock.forwarded)) ELSE << >>
       IN  /\ Settle("wsMessage", TRUE, W)
           /\ mock' = [mock EXCEPT !.quota = @ - 1,
                                   !.inbox = @ \o frames,
                                   !.forwarded =
                                       @ \o [i \in 1 .. Len(frames) |-> frames[i].frame]]

\* sock.on("data") of the mock worker, for one frame.
MockOnData ==
    /\ Running
    /\ mock.inbox # << >>
    /\ mock' = [mockOnFrame(mock, Head(mock.inbox).frame, Head(mock.inbox).n)
                   EXCEPT !.inbox = Tail(@)]
    /\ UNCHANGED << runner, clients, idleTimer, startPromise, disposed, terminalBuffer,
                    lastToolUiStates, ptyProcess, socketServer, runnerSocket, tmpDir,
                    socketPath, lastUiState, ws, workers, conns, listening, dirs,
                    sockFiles, starts, restarts, stored, envAuth, crashed, budget, last,
                    expect, recvTerm, replayed, recvUi, emittedUi, emittedTools, pushed,
                    prevRun, nd >>

\* A frame of the mock worker arrives at the Session.
MockFrame ==
    /\ Running
    /\ mock.outbox # << >>
    /\ runnerSocket # 0
    /\ conns[runnerSocket] = "established"
    /\ LET out == Head(mock.outbox)
           msg == IF out.type = "runner.ui_state" THEN Msg(out.type, out.state)
                  ELSE Msg(out.type, "")
       IN  /\ mock' = [mock EXCEPT !.outbox = Tail(@),
                                   !.delivered = Append(@, [type |-> out.type,
                                                            state |-> out.state,
                                                            re |-> out.re,
                                                            to |-> Attached])]
           /\ \E W \in {onRunnerMessage(
                            Emit([World EXCEPT !.emittedUi =
                                      IF msg.type = "runner.ui_state"
                                      THEN << msg.body >> ELSE @],
                                 "frame", runnerSocket, msg),
                            msg)} :
                 Settle("runnerMessage", TRUE, W)

\* What the mock worker wrote to its standard output arrives as pty data.
MockPtyData ==
    /\ Running
    /\ mock.stdout # << >>
    /\ ptyProcess # 0
    /\ Settle("ptyData", TRUE,
              pushTerminalData(World, << Char(Head(mock.stdout), ptyProcess, 0) >>))
    /\ mock' = [mock EXCEPT !.stdout = Tail(@)]

MockProfiles ==
    { [runner |-> "mock", stored |-> {"none"}, envAuth |-> {"none"},
       budget |-> Budget(1, 1, 1, 0, 0, 0, 0, 0, 0)] }

\* In the runs that follow the mock worker what arrives is kept in
\* mock.delivered, and of the effects of a handler only what was done.
MockInit ==
    /\ InitOf(MockProfiles)
    /\ nd = NoStream
    /\ mock = [NoMock EXCEPT !.quota = MaxMockCommands, !.followed = TRUE]

\* The viewer stays, and so does the worker.
MockNext ==
    \/ \E v \in Viewers : Attach(v)
    \/ \E s \in StartIds, ok \in BOOLEAN : StartMkdtempDone(s, ok)
    \/ \E s \in StartIds, ok \in BOOLEAN, spawnOk \in BOOLEAN : StartListenDone(s, ok, spawnOk)
    \/ \E w \in WorkerIds : Connect(w)
    \/ MockOnConnect
    \/ \E v \in Viewers, msg \in MockCommands : MockCommand(v, msg)
    \/ MockOnData
    \/ MockFrame
    \/ MockPtyData

\* How far the frames between the Session and the mock worker have come.
MockProgress == << Len(mock.inbox), Len(mock.outbox), Len(mock.delivered) >>

\* The worker reads what it is sent, and what it writes arrives: both ends
\* read their socket in an event loop that nothing blocks.
MockSpec ==
    MockInit /\ [][MockNext]_vars
        /\ WF_MockProgress(MockOnData) /\ WF_MockProgress(MockFrame)


\* ------------------------------------------------------------ properties
\* The worker processes that run and were not signalled.
LiveWorkers == {w \in WorkerIds : workers[w].st = "live"}

\* The start sequences that began and have not run to their end.
StartsInFlight == {s \in StartIds : starts[s].pc \in {"mkdtemp", "listen", "validate"}}

\* The connections the Session accepted and has neither destroyed nor seen
\* closed, of workers that still run.
Established == {c \in WorkerIds : conns[c] = "established" /\ workers[c].st # "exited"}

\* The positions in the effects of the last handler where op was done.
FxAt(op) == {i \in 1 .. Len(last.fx) : last.fx[i].op = op}

\* The positions where a message of this type was sent to one viewer.
SentAt(type) == {i \in FxAt("send") : last.fx[i].m.type = type}

\* The positions where a message of this type was broadcast.
BroadcastAt(type) == {i \in FxAt("broadcast") : last.fx[i].m.type = type}

\* C1: under any interleaving of attach-triggered starts and session.restart
\* commands, also a restart handled while a start sequence or a validation is
\* in flight, no two workers spawned by the Session are live at the same time.
C1_AtMostOneLiveWorker == Cardinality(LiveWorkers) <= 1

\* C2: at most one start sequence is in flight at any time; an attach made
\* while one is in flight begins no second one.
C2_AtMostOneStartInFlight == Cardinality(StartsInFlight) <= 1

\* C3: every broadcast (terminal.data, ui.state, ui.tool_ui.state,
\* session.error) goes to exactly the viewers attached at that moment.
C3_BroadcastToAttached ==
    \A i \in FxAt("broadcast") : last.fx[i].a = last.fx[i].att

\* A broadcast was made to a viewer while another viewer had detached.
C3_Witness ==
    \E i \in FxAt("broadcast") :
        /\ last.fx[i].a # {}
        /\ \E v \in Viewers : ws[v] \in {"closed", "errored"} /\ v \notin last.fx[i].a

\* C4: an attached viewer has received, as terminal.data, the backlog as it
\* was when it attached and then all text produced since, in order, nothing
\* lost and nothing twice; the replay is cut in chunks of at most ChunkSize.
C4_BacklogThenOutput ==
    /\ \A v \in Attached : recvTerm[v] = expect[v]
    /\ last.h = "attach" =>
          \A i \in SentAt("terminal.data") :
              Len(last.fx[i].m.body) \in 1 .. ChunkSize

\* A viewer attached to a backlog of more than one chunk, and text was
\* produced after that.
C4_Witness ==
    \E v \in Attached :
        /\ replayed[v] > ChunkSize
        /\ Len(recvTerm[v]) > replayed[v]
        /\ recvTerm[v] = expect[v]

\* C5: attach registers the viewer, then sends it the backlog, then the last
\* UI state, then every cached tool-UI state in order, and only then begins a
\* start sequence, all in one step.
C5_AttachOrder ==
    (last.h = "attach" /\ FxAt("register") # {}) =>
        LET fx == last.fx
            r == CHOOSE i \in FxAt("register") : TRUE
            v == fx[r].a
            u == CHOOSE i \in SentAt("ui.state") : TRUE
            n == Len(lastToolUiStates)
        IN  /\ FxAt("register") = {r}
            /\ SentAt("ui.state") = {u}
            /\ r < u
            /\ \A i \in 1 .. r - 1 : fx[i].op = "clearTimeout"
            /\ \A i \in r + 1 .. u - 1 : i \in SentAt("terminal.data")
            /\ fx[u].m.body = lastUiState
            /\ \A k \in 1 .. n : /\ u + k \in SentAt("ui.tool_ui.state")
                                 /\ fx[u + k].m.body = lastToolUiStates[k]
            /\ Len(fx) \in {u + n, u + n + 1}
            /\ Len(fx) = u + n + 1 => fx[u + n + 1].op = "start"
            /\ \A i \in FxAt("send") : fx[i].a = v

\* An attach replayed a backlog and then began a start sequence.
C5_Witness ==
    /\ last.h = "attach"
    /\ SentAt("terminal.data") # {}
    /\ FxAt("start") # {}

\* C6: while a viewer is attached no idle timer is pending, so the idle stop
\* runs only with no viewer attached; an attach that finds the timer pending
\* cancels it and stops nothing and clears nothing.
C6_IdleStopOnlyWithoutViewers ==
    /\ Attached # {} => idleTimer # "armed"
    /\ last.h = "idleTimer" => Attached = {}
    /\ last.h = "attach" => FxAt("stop") = {} /\ FxAt("kill") = {}

\* A viewer attached again while the timer was pending, and the worker still
\* runs and the backlog is still there.
C6_Witness ==
    /\ last.h = "attach"
    /\ \E i \in FxAt("clearTimeout") : last.fx[i].m = "armed"
    /\ ptyProcess \in LiveWorkers
    /\ terminalBuffer # << >>
    /\ FxAt("start") = {}


\* C7: the idle stop leaves the Session without its worker, with an empty
\* backlog, an empty tool-UI cache and the empty UI state; a viewer that
\* attaches afterwards is sent no output of a worker of the run before.
C7_IdleStopForgetsRun ==
    /\ last.h = "idleTimer" =>
          /\ ptyProcess = 0
          /\ \A i \in FxAt("kill") : last.fx[i].a \notin LiveWorkers
          /\ terminalBuffer = << >>
          /\ lastToolUiStates = << >>
          /\ lastUiState = EmptyUiState
    /\ last.h = "attach" =>
          \A i \in SentAt("terminal.data") :
              \A k \in 1 .. Len(last.fx[i].m.body) :
                  last.fx[i].m.body[k].k = "pty" => last.fx[i].m.body[k].w \notin prevRun

\* C8: the exit of a worker that was killed and replaced leaves the worker
\* that replaced it running, as the Session's worker, and leaves the backlog.
C8_OldExitKeepsNewWorker ==
    [][\A w \in WorkerIds :
          (/\ workers[w].st = "killed"
           /\ workers'[w].st = "exited"
           /\ ptyProcess \in LiveWorkers)
          => /\ ptyProcess' = ptyProcess
             /\ ptyProcess \in {p \in WorkerIds : workers'[p].st = "live"}
             /\ terminalBuffer' = terminalBuffer]_vars

\* C9: at every moment at most one control connection is established, also
\* after restarts and after late close events of earlier connections.
C9_AtMostOneEstablished == Cardinality(Established) <= 1

\* The handler that ran last found no credential, or had its credential
\* refused by the validation, for a worker that is not the mock.
CredentialRefused ==
    /\ runner # "mock"
    /\ \/ last.h \in {"startListen", "restart"} /\ last.ok /\ apiKeyOf(World) = "none"
       \/ last.h \in {"startValidate", "restartValidate"} /\ ~last.ok

\* C10: when no credential is available or the validation refuses it, the
\* handler spawns no worker, appends a diagnostic line to the backlog and
\* broadcasts it, sends no session.error, and the Session has no worker.
C10_NoCredentialNoWorker ==
    CredentialRefused =>
        /\ FxAt("spawn") = {}
        /\ \E i \in BroadcastAt("terminal.data") :
              last.fx[i].m.body \in {NotAuthenticatedLine, AuthInvalidLine}
        /\ terminalBuffer # << >>
        /\ << terminalBuffer[Len(terminalBuffer)] >> \in {NotAuthenticatedLine, AuthInvalidLine}
        /\ BroadcastAt("session.error") = {}
        /\ SentAt("session.error") = {}
        /\ ptyProcess = 0


\* C11: a worker that is not the mock and is spawned with a credential, while
\* an endpoint is known, is spawned by a handler that has just seen the
\* validation of that same credential succeed.
C11_SpawnAfterFreshValidation ==
    runner # "mock" =>
        \A i \in FxAt("spawn") :
            (workers[last.fx[i].a].token # "none" /\ hasBaseUrl(World)) =>
                \E j \in FxAt("validated") :
                    j < i /\ last.fx[j].m = workers[last.fx[i].a].token


\* C12: when a step of the start sequence raises, the session error line and
\* then the session.error message are broadcast to the attached viewers, the
\* Session is stopped after that, and it is left without worker, listener and
\* start handle.
C12_StartFailureReported ==
    \A c \in FxAt("catch") :
        /\ c + 3 <= Len(last.fx)
        /\ c + 1 \in BroadcastAt("terminal.data")
        /\ last.fx[c + 1].m.body = SessionErrorLine
        /\ last.fx[c + 1].a = last.fx[c + 1].att
        /\ c + 2 \in BroadcastAt("session.error")
        /\ last.fx[c + 2].m.body = last.fx[c].m
        /\ last.fx[c + 2].a = last.fx[c + 2].att
        /\ last.fx[c + 3].op = "stop"
        /\ ptyProcess = 0
        /\ socketServer = 0
        /\ runnerSocket = 0
        /\ startPromise = 0

\* A start sequence failed with a viewer attached that was told so.
C12_Witness ==
    \E c \in FxAt("catch") :
        /\ c + 2 \in BroadcastAt("session.error")
        /\ last.fx[c + 2].a # {}
        /\ FxAt("closeServer") # {}


\* C13: no viewer command and no asynchronous completion raises an exception
\* that leaves the Session uncaught.
C13_NothingThrownPastSession == ~crashed


\* The positions where a frame of this type came in from a worker.
FrameAt(type) == {i \in FxAt("frame") : last.fx[i].m.type = type}

\* C14: in the step that handles runner.ui_state(s) the cached UI state
\* becomes s, nothing of the state before is kept, and ui.state with s is
\* broadcast to the viewers attached.
C14_UiStateReplaced ==
    \A i \in FrameAt("runner.ui_state") :
        /\ lastUiState = last.fx[i].m.body
        /\ BroadcastAt("ui.state") = {i + 1}
        /\ last.fx[i + 1].m.body = last.fx[i].m.body
        /\ last.fx[i + 1].a = Attached

\* A UI state without a current approval came in, as the last frame of the
\* run, while two viewers were attached.
C14_Witness ==
    \E i \in FrameAt("runner.ui_state") :
        /\ last.fx[i].m.body.currentApproval = "absent"
        /\ last.fx[i].m.body.activeOverlay = "model"
        /\ Cardinality(Attached) >= 2
        /\ budget.msgs = 0


\* C15: once a worker has emitted a UI state, the last ui.state every attached
\* viewer was sent is the state emitted last, whenever the viewer attached.
C15_ViewersSeeLatestUiState ==
    emittedUi # << >> =>
        \A v \in Attached :
            /\ recvUi[v] # << >>
            /\ recvUi[v][Len(recvUi[v])] = emittedUi[1]

\* A viewer attached between an update with a current approval and an update
\* without: it was sent the first on attach and the second with the others.
C15_Witness ==
    \E v, u \in Attached :
        /\ Len(recvUi[v]) = 2
        /\ recvUi[v][1].currentApproval = "t1"
        /\ recvUi[v][2].currentApproval = "absent"
        /\ Len(recvUi[u]) = 3
        /\ recvUi[u][2] = recvUi[v][1]
        /\ recvUi[u][3] = recvUi[v][2]


\* currentApproval is absent without pending approvals, and is the pending
\* approval at currentApprovalIndex otherwise.
ApprovalConsistent(state) ==
    IF state.pendingApprovals = << >>
    THEN state.currentApproval = "absent"
    ELSE /\ state.currentApprovalIndex \in 0 .. Len(state.pendingApprovals) - 1
         /\ state.currentApproval = state.pendingApprovals[state.currentApprovalIndex + 1]

\* C16: the UI state the broker caches, every UI state it sends to a viewer
\* and every UI state a worker publishes has a current approval that agrees
\* with its list of pending approvals and its index.
C16_CurrentApprovalConsistent ==
    /\ ApprovalConsistent(lastUiState)
    /\ \A i \in FrameAt("runner.ui_state") : ApprovalConsistent(last.fx[i].m.body)
    /\ \A i \in SentAt("ui.state") \cup BroadcastAt("ui.state") :
           ApprovalConsistent(last.fx[i].m.body)

\* The state after an answered approval came in, was cached and was sent to
\* a viewer that had been sent the state with the approval pending.
C16_Witness ==
    \E i \in FrameAt("runner.ui_state"), v \in Attached :
        /\ last.fx[i].m.body = setApprovals(setApprovals(EmptyUiState, << "t1" >>), << >>)
        /\ Len(recvUi[v]) >= 2
        /\ recvUi[v][Len(recvUi[v]) - 1].pendingApprovals # << >>
        /\ recvUi[v][Len(recvUi[v])] = lastUiState


\* The command the last handler handled, when it handled one.
CommandHandled(types) ==
    /\ last.h = "wsMessage"
    /\ last.fx[1].m.type \in types

\* What the Session holds, and what is around it.
SessionState ==
    << clients, idleTimer, startPromise, disposed, terminalBuffer, lastToolUiStates,
       ptyProcess, socketServer, runnerSocket, tmpDir, socketPath, lastUiState >>
Surroundings ==
    << ws, workers, conns, listening, dirs, sockFiles, starts, restarts, stored, envAuth,
       crashed >>

\* C17: input.submit(text) goes one way only: as one runner.submit frame to
\* the control connection when the Session has one, with nothing written to
\* the terminal; else as text and then a carriage return to the terminal of
\* the Session's worker; else nowhere.
C17_SubmitOnePath ==
    CommandHandled({"input.submit"}) =>
        LET text == last.fx[1].m.body
            rest == SubSeq(last.fx, 2, Len(last.fx))
        IN  IF runnerSocket # 0
            THEN rest = << Fx("socketWrite", runnerSocket, Msg("runner.submit", text), Attached) >>
            ELSE IF ptyProcess # 0
            THEN rest = << Fx("ptyWrite", ptyProcess, text, Attached),
                           Fx("ptyWrite", ptyProcess, "\r", Attached) >>
            ELSE rest = << >>

\* A submit was handled while the Session had both a control connection and
\* a worker.
C17_Witness ==
    /\ CommandHandled({"input.submit"})
    /\ runnerSocket # 0
    /\ ptyProcess # 0
    /\ FxAt("socketWrite") # {}

\* C18: ui.action and ui.tool_ui.event are forwarded as one frame to the
\* control connection when the Session has one and are dropped otherwise; the
\* terminal gets nothing and the Session stays as it is.
C18_UiCommandsForwardedOrDropped ==
    [][(/\ last'.h = "wsMessage"
        /\ last'.fx[1].m.type \in {"ui.action", "ui.tool_ui.event"})
       => /\ UNCHANGED << SessionState, Surroundings >>
          /\ LET m == last'.fx[1].m
                 frame == IF m.type = "ui.action" THEN Msg("runner.ui_action", m.body)
                          ELSE Msg("runner.tool_ui.event", m.body)
                 rest == SubSeq(last'.fx, 2, Len(last'.fx))
             IN  IF runnerSocket # 0
                 THEN rest = << Fx("socketWrite", runnerSocket, frame, Attached) >>
                 ELSE rest = << >>]_vars

\* A ui.action was handled while the Session had a worker and no control
\* connection.
C18_Witness ==
    /\ CommandHandled({"ui.action"})
    /\ runnerSocket = 0
    /\ ptyProcess # 0
    /\ Len(last.fx) = 1

\* C19: terminal.key and terminal.resize are passed as they are to the
\* terminal of the Session's worker when it has one and are dropped
\* otherwise; the Session stays as it is either way.
C19_KeysAndResizeToWorker ==
    [][(/\ last'.h = "wsMessage"
        /\ last'.fx[1].m.type \in {"terminal.key", "terminal.resize"})
       => /\ UNCHANGED << SessionState, Surroundings >>
          /\ LET m == last'.fx[1].m
                 call == IF m.type = "terminal.key" THEN "ptyWrite" ELSE "ptyResize"
                 rest == SubSeq(last'.fx, 2, Len(last'.fx))
             IN  IF ptyProcess # 0
                 THEN rest = << Fx(call, ptyProcess, m.body, Attached) >>
                 ELSE rest = << >>]_vars

\* A key was handled while the Session had no worker, after a worker exited.
C19_Witness ==
    /\ CommandHandled({"terminal.key"})
    /\ ptyProcess = 0
    /\ \E w \in WorkerIds : workers[w].st = "exited"
    /\ Len(last.fx) = 1


\* The place of a release in the order of a shutdown; 0 for anything else.
ReleaseRank(op) ==
    CASE op = "destroySocket" -> 1
      [] op \in {"closeServer", "unlink"} -> 2
      [] op = "kill" -> 3
      [] op = "rmTmpDir" -> 4
      [] OTHER -> 0

\* Whether places i < j of the last handler's effects belong to one stop().
InOneStop(i, j) ==
    /\ i < j
    /\ \E k \in 1..(i - 1) :
          /\ last.fx[k].op = "stop"
          /\ \A n \in (k + 1)..j : last.fx[n].op # "stop"

\* C20: what a stop() releases it releases in this order: the control
\* connection, the listener and its socket file, the worker (kill), the
\* temporary directory.
C20_StopReleaseOrder ==
    \A i, j \in 1..Len(last.fx) :
        (/\ InOneStop(i, j)
         /\ ReleaseRank(last.fx[i].op) # 0
         /\ ReleaseRank(last.fx[j].op) # 0)
        => ReleaseRank(last.fx[i].op) <= ReleaseRank(last.fx[j].op)


\* C21: dispose() closes every attached viewer connection, empties the viewer
\* set, cancels the idle timer and stops the worker; a second or later call
\* changes nothing and closes nothing; a viewer that attaches to a disposed
\* Session is closed at once and is not registered.
C21_DisposeOnceAndForAll ==
    [][/\ (last'.h = "dispose" /\ ~disposed) =>
            /\ disposed'
            /\ clients' = {}
            /\ idleTimer' = "null"
            /\ ptyProcess' = 0 /\ runnerSocket' = 0 /\ socketServer' = 0
            /\ \A v \in clients \cup Attached :
                  /\ ws'[v] = "closed"
                  /\ \E i \in 1 .. Len(last'.fx) :
                        last'.fx[i].op = "closeWs" /\ last'.fx[i].a = v
            /\ ptyProcess # 0 =>
                  /\ \E i \in 1 .. Len(last'.fx) :
                        last'.fx[i].op = "kill" /\ last'.fx[i].a = ptyProcess
                  /\ workers'[ptyProcess].st # "live"
            /\ idleTimer = "armed" =>
                  \E i \in 1 .. Len(last'.fx) : last'.fx[i].op = "clearTimeout"
       /\ (last'.h = "dispose" /\ disposed) =>
            /\ UNCHANGED << SessionState, Surroundings >>
            /\ last'.fx = << Fx("dispose", 0, "", Attached) >>
       /\ (last'.h = "attach" /\ disposed) =>
            /\ UNCHANGED SessionState
            /\ \E v \in Viewers :
                  /\ ws[v] = "new"
                  /\ ws'[v] = "closed"
                  /\ Len(last'.fx) = 1
                  /\ last'.fx[1].op = "closeWs" /\ last'.fx[1].a = v]_vars

\* A Session with two viewers attached and a worker running was disposed of.
C21_Witness ==
    /\ last.h = "dispose"
    /\ disposed
    /\ Cardinality(FxAt("closeWs")) = 2
    /\ FxAt("kill") # {}


\* C22: whenever a viewer attaches while the Session is Idle (no worker, no
\* control connection, no start sequence in flight), a start is triggered,
\* whatever brought the Session there.
C22_AttachWhileIdleStarts ==
    [][(/\ last'.h = "attach"
        /\ ~disposed
        /\ ptyProcess = 0
        /\ runnerSocket = 0
        /\ StartsInFlight = {})
       => \E i \in 1 .. Len(last'.fx) : last'.fx[i].op = "start"]_vars


\* The exit the last handler handled was of the worker w with this code.
ExitHandled(w, code) ==
    /\ last.h = "workerExit"
    /\ last.fx[1].a = w
    /\ last.fx[1].m = code

\* C23: when the Session's current worker exits, with any exit code, the
\* Session is Idle afterwards (no worker, no control connection, no listener,
\* no start handle) and no session.error is sent.
C23_WorkerExitBackToIdle ==
    [][(/\ last'.h = "workerExit"
        /\ ptyProcess # 0
        /\ last'.fx[1].a = ptyProcess)
       => /\ ptyProcess' = 0
          /\ runnerSocket' = 0
          /\ socketServer' = 0
          /\ startPromise' = 0
          /\ runnerSocket # 0 => conns'[runnerSocket] # "established"
          /\ socketServer # 0 => socketServer \notin listening'
          /\ \A i \in 1 .. Len(last'.fx) :
                last'.fx[i].op \in {"send", "broadcast"}
                    => last'.fx[i].m.type # "session.error"]_vars

\* The worker crashed while its control connection was established and the
\* listener was listening.
C23_Witness ==
    /\ \E w \in WorkerIds : ExitHandled(w, 137)
    /\ FxAt("destroySocket") # {}
    /\ FxAt("closeServer") # {}
    /\ ptyProcess = 0


\* How often c occurs in s.
CountOf(s, c) == Cardinality({i \in 1 .. Len(s) : s[i] = c})

\* C24: when a stream is encode(m1) ++ ... ++ encode(mk), cut into chunks in
\* any way, the decoder has delivered exactly the messages whose frames it
\* has been fed to their end, once each and in order: all of m1..mk when the
\* stream is read, two for two frames in one chunk.
C24_FramesRoundTrip ==
    nd.framed =>
        /\ ~nd.thrown
        /\ nd.out = SubSeq(nd.msgs, 1, CountOf(nd.fed, NL))
        /\ nd.rest = << >> => nd.out = nd.msgs

\* Three frames, one of a string with a line feed in it, were read in one chunk.
C24_Witness ==
    /\ nd.framed
    /\ nd.rest = << >>
    /\ nd.chunks = 1
    /\ Len(nd.msgs) = 3
    /\ \E i \in 1 .. 3 : nd.msgs[i] = Str(<< NL >>)
    /\ nd.out = nd.msgs

\* The lines of s that are complete: each ended by a line feed.
RECURSIVE CompleteLines(_)
CompleteLines(s) ==
    LET nl == IndexOf(s, NL)
    IN  IF nl = 0 THEN << >>
        ELSE << SubSeq(s, 1, nl - 1) >> \o CompleteLines(SubSeq(s, nl + 1, Len(s)))

\* A line that is not empty after trimming and parses as JSON.
IsJson(line) == Trim(line) # << >> /\ JSONparse(Trim(line)).ok

\* The values of the complete lines of s that are JSON, in order.
Callbacks(s) ==
    LET valid == SelectSeq(CompleteLines(s), IsJson)
    IN  [i \in 1 .. Len(valid) |-> JSONparse(Trim(valid[i])).val]

\* C25: for any stream and any chunks, the decoder's callbacks are exactly the
\* complete lines that are not empty after trimming and parse as JSON, in the
\* order of the stream; an empty or malformed line raises nothing and keeps
\* no line before or after it from being delivered.
C25_ValidLinesOnly ==
    /\ ~nd.thrown
    /\ nd.out = Callbacks(nd.fed)

\* A malformed line between two frames, all in one chunk: both frames were
\* delivered.
C25_Witness ==
    /\ nd.rest = << >>
    /\ nd.chunks = 1
    /\ nd.fed = encodeNdjson(Num1) \o << "[", "1", NL >> \o encodeNdjson(Str(<< NL >>))
    /\ nd.out = << Num1, Str(<< NL >>) >>


\* C26: once a UI state has come whose current approval is absent or another
\* tool call than X, the tool-UI state of X is held no longer: the Session's
\* cache has no entry for it, and a viewer that attaches afterwards is sent
\* none.
C26_ToolUiInvalidated ==
    /\ FrameAt("runner.ui_state") # {} =>
          \A i \in 1 .. Len(lastToolUiStates) :
              lastToolUiStates[i].toolCallId = lastUiState.currentApproval
    /\ (last.h = "attach" /\ emittedUi # << >>) =>
          \A i \in SentAt("ui.tool_ui.state") :
              last.fx[i].m.body.toolCallId = emittedUi[1].currentApproval


\* C27: a viewer message or a worker frame of unexpected shape is dropped:
\* the cached UI state, the tool-UI cache and the backlog stay as they are,
\* nothing is broadcast, sent or forwarded, and nothing is raised.
C27_MalformedDropped ==
    [][last'.h \in {"malformedFrame", "malformedCommand"}
       => /\ UNCHANGED << lastUiState, lastToolUiStates, terminalBuffer >>
          /\ \A i \in 1 .. Len(last'.fx) :
                last'.fx[i].op \notin {"send", "broadcast", "socketWrite", "ptyWrite",
                                       "ptyResize"}
          /\ ~crashed']_vars


\* C28: when the control connection the Session holds closes or errors, the
\* Session drops its reference and nothing else changes: the listener keeps
\* listening, the worker and the phase stay; a connection attempt that comes
\* next is accepted as the new control connection.
C28_ConnectionLossKeepsSession ==
    [][/\ (/\ last'.h = "socketGone"
           /\ runnerSocket # 0
           /\ conns[runnerSocket] = "established"
           /\ conns'[runnerSocket] = "closed")
          => /\ runnerSocket' = 0
             /\ last'.fx = << >>
             /\ UNCHANGED << clients, idleTimer, startPromise, disposed, terminalBuffer,
                             lastToolUiStates, ptyProcess, socketServer, tmpDir,
                             socketPath, lastUiState, ws, workers, listening, dirs,
                             sockFiles, starts, restarts >>
       /\ (last.h = "socketGone" /\ last'.h = "connection")
          => /\ runnerSocket' # 0
             /\ conns'[runnerSocket'] = "established"
             /\ \E i \in 1 .. Len(last'.fx) :
                   last'.fx[i].op = "accept" /\ last'.fx[i].a = runnerSocket']_vars

\* The connection of the running worker closed; the worker runs on and the
\* listener listens.
C28_Witness ==
    /\ last.h = "socketGone"
    /\ runnerSocket = 0
    /\ ptyProcess # 0
    /\ conns[ptyProcess] = "closed"
    /\ workers[ptyProcess].st = "live"
    /\ socketServer # 0
    /\ socketServer \in listening


\* C29: handling runner.ready sends the cached UI state to every attached
\* viewer and changes nothing in the Session.
C29_ReadyRebroadcasts ==
    [][(/\ last'.h = "runnerMessage"
        /\ last'.fx[1].m.type = "runner.ready")
       => /\ UNCHANGED << SessionState, ws, workers, conns, listening, dirs, sockFiles,
                          starts, restarts, stored, envAuth, crashed >>
          /\ Len(last'.fx) = 2
          /\ last'.fx[2] = Fx("broadcast", Attached, Msg("ui.state", lastUiState), Attached)
          /\ \A v \in Attached : recvUi'[v] = Append(recvUi[v], lastUiState)]_vars

\* A runner.ready was handled while two viewers were attached and a UI state
\* other than the first was cached.
C29_Witness ==
    /\ last.h = "runnerMessage"
    /\ FrameAt("runner.ready") # {}
    /\ lastUiState # EmptyUiState
    /\ Cardinality(Attached) = 2
    /\ \A v \in Attached : recvUi[v] # << >> /\ recvUi[v][Len(recvUi[v])] = lastUiState


\* The tool-UI state that was emitted last, since the last stop, for the tool
\* call id.
LastEmittedTool(id) ==
    LET at == {i \in 1 .. Len(emittedTools) : emittedTools[i].toolCallId = id}
    IN  emittedTools[CHOOSE i \in at : \A j \in at : j <= i]

\* C30: the tool-UI cache holds, for each tool call id of a
\* runner.tool_ui.state message since the last stop, one entry: the state of
\* the last message with that id; each message is broadcast to the viewers
\* attached, and a viewer that attaches is sent one ui.tool_ui.state for each
\* cached id.
C30_ToolUiCacheUpserts ==
    LET ids == {emittedTools[i].toolCallId : i \in 1 .. Len(emittedTools)}
    IN  /\ {lastToolUiStates[i].toolCallId : i \in 1 .. Len(lastToolUiStates)} = ids
        /\ Len(lastToolUiStates) = Cardinality(ids)
        /\ \A i \in 1 .. Len(lastToolUiStates) :
              lastToolUiStates[i] = LastEmittedTool(lastToolUiStates[i].toolCallId)
        /\ FrameAt("runner.tool_ui.state") # {} =>
              /\ Len(last.fx) = 2
              /\ last.fx[2].op = "broadcast"
              /\ last.fx[2].a = last.fx[2].att
              /\ last.fx[2].m = Msg("ui.tool_ui.state", last.fx[1].m.body)
        /\ (last.h = "attach" /\ ~disposed) =>
              /\ Cardinality(SentAt("ui.tool_ui.state")) = Len(lastToolUiStates)
              /\ \A k \in 1 .. Len(lastToolUiStates) :
                    \E i \in SentAt("ui.tool_ui.state") :
                        last.fx[i].m.body = lastToolUiStates[k]

\* A viewer attached after two states had come for one tool call, and was sent
\* the second.
C30_Witness ==
    /\ last.h = "attach"
    /\ Len(emittedTools) = 2
    /\ emittedTools[1].toolCallId = emittedTools[2].toolCallId
    /\ emittedTools[1] # emittedTools[2]
    /\ Cardinality(SentAt("ui.tool_ui.state")) = 1
    /\ \A i \in SentAt("ui.tool_ui.state") : last.fx[i].m.body = emittedTools[2]


\* The release step is among the effects, for this handle.
AttemptedIn(fx, op, a) == \E i \in 1 .. Len(fx) : fx[i].op = op /\ fx[i].a = a

\* The release steps that raised in the handler that ran last.
FailedSteps == {last.fx[i].m : i \in {j \in 1 .. Len(last.fx) : last.fx[j].op = "raised"}}

\* C31: whichever release steps of stop() fail, every step whose handle is set
\* is attempted, nothing is raised out of stop(), and afterwards the handles
\* of the Session are null and its cached state is cleared.
C31_StopBestEffort ==
    [][last'.h \in {"idleTimer", "workerExit"}
       => /\ runnerSocket # 0 => AttemptedIn(last'.fx, "destroySocket", runnerSocket)
          /\ socketServer # 0 => AttemptedIn(last'.fx, "closeServer", socketServer)
          /\ ptyProcess # 0 => AttemptedIn(last'.fx, "kill", ptyProcess)
          /\ socketPath # 0 => AttemptedIn(last'.fx, "rmSocketPath", socketPath)
          /\ tmpDir # 0 => AttemptedIn(last'.fx, "rmTmpDir", tmpDir)
          /\ ~crashed'
          /\ \A i \in 1 .. Len(last'.fx) : last'.fx[i].op # "uncaught"
          /\ runnerSocket' = 0 /\ socketServer' = 0 /\ ptyProcess' = 0
          /\ socketPath' = 0 /\ tmpDir' = 0 /\ startPromise' = 0
          /\ terminalBuffer' = << >> /\ lastToolUiStates' = << >>
          /\ lastUiState' = EmptyUiState]_vars

\* A stop() whose first and third steps failed, and that went through all five.
C31_Witness ==
    /\ last.h = "workerExit"
    /\ FailedSteps = {"destroySocket", "kill"}
    /\ \A op \in ReleaseSteps : \E i \in 1 .. Len(last.fx) : last.fx[i].op = op
    /\ ptyProcess = 0 /\ runnerSocket = 0 /\ tmpDir = 0


\* The last n elements of a sequence, all of it when it has fewer.
LastChars(s, n) == [i \in 1 .. Min(n, Len(s)) |-> s[Len(s) - Min(n, Len(s)) + i]]

\* C32: the backlog is never longer than its cap, and it is the end of all the
\* text pushed since the last stop (pty output, runner.log lines, the broker's
\* own lines), in order: what is discarded is the oldest text.
C32_BacklogKeepsNewest ==
    /\ Len(terminalBuffer) <= MaxTerminalBufferChars
    /\ terminalBuffer = LastChars(pushed, MaxTerminalBufferChars)

\* More text than the cap was pushed, pty output and a runner.log line among
\* it, and the first character pushed is no longer in the backlog.
C32_Witness ==
    /\ Len(pushed) > MaxTerminalBufferChars
    /\ \E i \in 1 .. Len(pushed) : pushed[i].k = "pty"
    /\ \E i \in 1 .. Len(pushed) : pushed[i].k = "runnerLog"
    /\ \A i \in 1 .. Len(terminalBuffer) : terminalBuffer[i] # pushed[1]
    /\ Len(terminalBuffer) = MaxTerminalBufferChars


\* C33: a worker that is spawned, by start or by restart, is given the
\* address of the Session's control socket, and the Session's listener is
\* listening on that address when the worker is spawned.
C33_SpawnedWithListeningAddress ==
    \A i \in FxAt("spawn") :
        LET addr == workers[last.fx[i].a].addr
        IN  /\ addr # 0
            /\ addr = socketPath
            /\ socketServer = addr
            /\ addr \in listening


\* The n-th frame the Session wrote to the mock worker is a UI action among
\* these.
Forwarded(n, actions) ==
    /\ n \in 1 .. Len(mock.forwarded)
    /\ mock.forwarded[n].type = "runner.ui_action"
    /\ mock.forwarded[n].body \in actions

\* The viewers got a ui.state like this, published for the n-th frame.
AnsweredWith(n, Like(_)) ==
    \E i \in 1 .. Len(mock.delivered) :
        /\ mock.delivered[i].re = n
        /\ mock.delivered[i].type = "runner.ui_state"
        /\ Like(mock.delivered[i].state)
        /\ mock.delivered[i].to = Attached
        /\ \A v \in Attached :
              \E k \in 1 .. Len(recvUi[v]) : recvUi[v][k] = mock.delivered[i].state

\* The viewers got, as terminal data, the log line written for the n-th frame.
LoggedFor(n) ==
    \E i \in 1 .. Len(mock.delivered) :
        /\ mock.delivered[i].re = n
        /\ mock.delivered[i].type = "runner.log"
        /\ mock.delivered[i].to = Attached
        /\ \A v \in Attached : \E k \in 1 .. Len(recvTerm[v]) : recvTerm[v][k].k = "runnerLog"

NoApprovals(state) == state.pendingApprovals = << >> /\ state.currentApproval = "absent"
NoOverlay(state) == state.activeOverlay = "null"

\* An action of the viewer went to the mock worker and the state it asks for,
\* or the log line, has not come to the viewer.
Owed ==
    \E n \in 1 .. MaxMockCommands :
        \/ Forwarded(n, ApprovalActions)
              /\ ~(Attached # {} /\ AnsweredWith(n, NoApprovals) /\ LoggedFor(n))
        \/ Forwarded(n, SelectActions)
              /\ ~(Attached # {} /\ AnsweredWith(n, NoOverlay) /\ LoggedFor(n))

\* C34: with the mock worker connected, an approval action of the viewer is
\* followed by a ui.state to the viewer with no pending and no current
\* approval, a selection action by a ui.state with no overlay, and either by
\* a log line in the viewer's terminal data.
C34_ActionAnswered == Owed ~> ~Owed

\* An approval was pending at the viewer, the viewer answered it, and the
\* state without it and the log line came back.
C34_Witness ==
    /\ \E v \in Attached : \E k \in 1 .. Len(recvUi[v]) : recvUi[v][k].currentApproval = "t1"
    /\ AnsweredWith(2, NoApprovals) /\ LoggedFor(2)
    /\ lastUiState.pendingApprovals = << >>


\* C35: once the Session is disposed no worker of it runs and none is
\* spawned, and no listener and no temp directory of it is left, also when a
\* start sequence was under way at the dispose().
C35_DisposedLeavesNothing ==
    disposed =>
        /\ LiveWorkers = {}
        /\ FxAt("spawn") = {}
        /\ listening = {}
        /\ dirs = {}


\* C36: the last ui.state every attached viewer was sent is the UI state the
\* Session caches, also after a stop while viewers are attached.
C36_ViewersSeeCachedUiState ==
    \A v \in Attached :
        /\ recvUi[v] # << >>
        /\ recvUi[v][Len(recvUi[v])] = lastUiState


\* C37: a worker spawned by a handler that has seen a validation succeed is
\* given the credential (token and endpoint) that this validation was made
\* with, also when the stored credential changed during the validation.
C37_SpawnedWithValidatedCredential ==
    \A i \in FxAt("spawn") :
        \A j \in FxAt("validated") :
            j < i => workers[last.fx[i].a].token = last.fx[j].m


\* The places of the handler's effects at which an idle timer was armed.
ArmedAt(fx) == {i \in 1 .. Len(fx) : fx[i].op = "armIdleTimer"}

\* C38: at most one idle timer is pending: a handler arms at most one, only
\* while none is pending, and the Session then holds it unless the handler
\* went on to cancel it; a pending timer
\* implies that no viewer is attached and that the Session is not disposed; a
\* second detach of a viewer arms nothing.
C38_OneIdleTimer ==
    [][/\ idleTimer' = "armed" => Attached' = {} /\ ~disposed'
       /\ ArmedAt(last'.fx) # {} =>
             /\ Cardinality(ArmedAt(last'.fx)) = 1
             /\ idleTimer # "armed"
             /\ \/ idleTimer' = "armed"
                \/ \E i \in ArmedAt(last'.fx) : \E j \in (i + 1) .. Len(last'.fx) :
                       last'.fx[j].op = "clearTimeout" /\ last'.fx[j].m = "armed"
       /\ (idleTimer = "armed" /\ last'.h \in {"wsClose", "wsError"}) =>
             /\ ArmedAt(last'.fx) = {}
             /\ idleTimer' = "armed"]_vars


\* C39: when the Session is idle (no start handle, no worker) and no start
\* sequence is in flight, no temp directory and no listener is left; and with
\* no start sequence in flight the only temp directory and listener that
\* exist are the ones the Session references.
C39_StartResourcesReleased ==
    StartsInFlight = {} =>
        /\ (startPromise = 0 /\ ptyProcess = 0) => dirs = {} /\ listening = {}
        /\ dirs \subseteq {tmpDir}
        /\ listening \subseteq {socketServer}

====
